---- MODULE Spec2Model ----
(***************************************************************************)
(* The creative-brief resolver of elevenlabs_agentos.py: the first part of *)
(* the handler of POST /api/vibe/generate-music (lines 370-489), together  *)
(* with the module-level tables and helpers it reads; the generate_music   *)
(* tool of mcp_elevenlabs_server.py; and the ElevenLabs client and its     *)
(* command line of elevenlabs_music_api.py.                                *)
(*                                                                         *)
(* Python values are represented as follows.                               *)
(*   Optional[T]   None is <<>>, a present value v is <<v>>.               *)
(*   float         a fixed-point integer counting 1/Scale; the inputs are  *)
(*                 drawn from a grid on which every product below is exact *)
(*                 (colour temperature stays in whole Kelvin).             *)
(*   List[str]     a sequence of strings.                                  *)
(*   dict          a function whose DOMAIN is the set of keys.             *)
(*   a list object that several names refer to is written back to every    *)
(*   holder when one of them mutates it (append, extend).                  *)
(***************************************************************************)
EXTENDS Integers, Sequences, FiniteSets, TLC

VARIABLES
    STYLE_INSTRUMENTS,  \* the module-level dict style -> instrument list
    request,            \* the VibeRequest being handled, as it was received
    requestAfter,       \* the same request object once the resolver has run
    brief,              \* the resolved CreativeMusicBrief of that request
    raised,             \* the exception that ended the resolver, if one did
    earlier,            \* an earlier call of this process: [request, brief]
    elevenlabs_api_key, \* mcp_elevenlabs_server.py: the key read at import
    ELEVENLABS_API_KEY, \* elevenlabs_music_api.py: the key read at import
    clock,              \* the wall clock, in whole seconds
    files,              \* the music directory: file name -> audio content
    toolResult,         \* what the last tools/call of the MCP server returned
    cli,                \* how the last run of the command line ended
    OPENWEATHER_API_KEY, \* mcp_weather_server.py: the key read at start-up
    weatherResult,      \* what the last tools/call of the weather server returned
    lookup,             \* the last scenario the weather scripts bucketed
    mcp_tools,          \* agno_weather_agent.py: the global MCP tools instance
    weatherResponse,    \* how the last GET /weather was answered
    handlers,           \* the running handlers of POST /api/vibe/generate-music
    file_stat,          \* the music directory: file name -> modification time, writer
    generated           \* the files successful generate_music calls returned, in order

resolver == <<STYLE_INSTRUMENTS, request, requestAfter, brief, raised, earlier>>
music == <<elevenlabs_api_key, ELEVENLABS_API_KEY, clock, files, toolResult, cli>>
weather_state == <<OPENWEATHER_API_KEY, weatherResult, lookup, mcp_tools, weatherResponse>>
endpoint_state == <<handlers, file_stat, generated>>
vars == <<resolver, music, weather_state, endpoint_state>>

None == <<>>
Some(v) == <<v>>

\* One unit of a float is 1/Scale.
Scale == 100 * 100
One == Scale

\* A float literal given in hundredths, e.g. F(35) is 0.35.
F(hundredths) == hundredths * (Scale \div 100)

\* x * c for two fixed-point floats.
Mul(x, c) == (x * c) \div Scale

\* float('inf'), as JSON text such as 1e999 parses: a value above every
\* finite float of the model.
Infinity == 200000 * Scale

\* Python int(x) on a float raises OverflowError on an infinity.
int_raises(x) == x = Infinity

\* Python int(x) on a finite float: truncation toward zero.
int(x) == IF x >= 0 THEN x \div Scale ELSE -((-x) \div Scale)

\* The nearest integer to a float (no input of the model lies on a tie).
Round(x) == (x + (Scale \div 2)) \div Scale

Min2(a, b) == IF a <= b THEN a ELSE b
Max2(a, b) == IF a >= b THEN a ELSE b

clamp(value, min_value, max_value) == Max2(min_value, Min2(max_value, value))

Contains(xs, x) == \E i \in 1..Len(xs) : xs[i] = x

\* xs[:n]
Take(xs, n) == SubSeq(xs, 1, Min2(n, Len(xs)))

\* sep.join(parts)
RECURSIVE Join(_, _)
Join(parts, sep) ==
    IF parts = <<>> THEN ""
    ELSE IF Len(parts) = 1 THEN parts[1]
    ELSE parts[1] \o sep \o Join(Tail(parts), sep)

\* Variant of Dedup that drops nothing.
DedupDropsNothing(xs) == xs

\* Variant of Dedup that keeps the last occurrence of a string, not the first.
DedupKeepsLast(xs) ==
    LET keep[i \in 0..Len(xs)] ==
            IF i = 0 THEN <<>>
            ELSE IF Contains(SubSeq(xs, Len(xs) - i + 2, Len(xs)), xs[Len(xs) - i + 1])
                 THEN keep[i - 1]
            ELSE <<xs[Len(xs) - i + 1]>> \o keep[i - 1]
    IN  keep[Len(xs)]

\* list(dict.fromkeys(xs)): later duplicates dropped, first-seen order kept.
Dedup(xs) ==
    LET keep[i \in 0..Len(xs)] ==
            IF i = 0 THEN <<>>
            ELSE IF Contains(keep[i - 1], xs[i]) THEN keep[i - 1]
            ELSE Append(keep[i - 1], xs[i])
    IN  keep[Len(xs)]

\* d.get(key, default)
DictGet(d, key, default) == IF key \in DOMAIN d THEN d[key] ELSE default

\* Truthiness of an Optional[str] and of an Optional[List[str]].
TruthyStr(o) == o # None /\ o[1] # ""
TruthyList(o) == o # None /\ o[1] # <<>>

InitialStyleInstruments ==
    [upbeat |-> <<"electric guitar", "synth bass", "four-on-the-floor kick", "claps">>,
     electronic |-> <<"analog synth pads", "side-chained bass", "crisp hi-hats">>,
     dynamic |-> <<"driving drums", "pulsing bass", "stabs">>,
     ambient |-> <<"soft pads", "tape-textured keys", "gentle swells">>,
     cozy |-> <<"warm piano", "upright bass", "brush kit">>,
     acoustic |-> <<"fingerstyle guitar", "hand percussion", "muted piano">>,
     jazz |-> <<"upright bass", "shuffle drums", "muted trumpet">>,
     classical |-> <<"chamber strings", "piano arpeggios", "woodwinds">>,
     chill |-> <<"lo-fi keys", "vinyl texture", "soft snaps">>]

STYLE_BY_INDICATOR ==
    [party |-> "upbeat", formal |-> "classical", professional |-> "ambient",
     casual |-> "acoustic", mixed |-> "chill"]

STYLE_BY_DECISION ==
    [party |-> "upbeat", chill |-> "chill", focused |-> "ambient", bored |-> "dynamic"]

\* str.lower() on the weather descriptions the model supplies.
Lower(s) ==
    CASE s = "Light Rain" -> "light rain"
      [] s = "Clear Sky" -> "clear sky"
      [] OTHER -> s

summarise_weather(weather) ==
    IF weather = None THEN None
    ELSE LET w == weather[1]
             parts ==
                 (IF TruthyStr(w.location) THEN <<w.location[1]>> ELSE <<>>)
                 \o (IF TruthyStr(w.description) THEN <<Lower(w.description[1])>> ELSE <<>>)
                 \o (IF w.temperature # None
                     THEN <<ToString(int(w.temperature[1])) \o "°C">> ELSE <<>>)
                 \o (IF w.humidity # None
                     THEN <<ToString(w.humidity[1]) \o "% humidity">> ELSE <<>>)
         IN  IF parts # <<>> THEN Some(Join(parts, ", ")) ELSE None

\* Whether summarise_weather ends in the OverflowError of int() at line 345.
summarise_weather_raises(weather) ==
    /\ weather # None
    /\ weather[1].temperature # None
    /\ int_raises(weather[1].temperature[1])

Percent(x) == ToString(int(clamp(x, 0, One) * 100))

summarise_environment(stats) ==
    Join(<<"motion " \o Percent(stats.motionLevel) \o "%",
           "crowd " \o Percent(stats.crowdDensity) \o "%",
           "lighting " \o stats.lightingPattern>>
         \o (IF stats.dominantColors # <<>>
             THEN <<"colors " \o Join(Take(stats.dominantColors, 3), ", ")>> ELSE <<>>)
         \o <<"audio energy " \o Percent(stats.audioEnergy) \o "%">>,
         " | ")

\* The list object instrumentation_for_style returns: the table's own list
\* for a known style, a new one-element list otherwise.
instrumentation_for_style(table, style) ==
    DictGet(table, style, <<"elements inspired by " \o style>>)

\* Variant of axis_value that takes a candidate of 0 for an absent one.
axis_value_truthy(candidate, default) ==
    IF candidate # None /\ candidate[1] # 0 THEN clamp(candidate[1], 0, One) ELSE default

axis_value(candidate, default) ==
    IF candidate # None THEN clamp(candidate[1], 0, One) ELSE default

(***************************************************************************)
(* Fresh derivation: request.brief is None (lines 382-471).               *)
(***************************************************************************)

\* Variant of chosen_style that asks the decision before the metadata.
chosen_style_decision_first(stats, pm, decision) ==
    IF decision # None /\ decision[1].vibeLabel \in DOMAIN STYLE_BY_DECISION
    THEN STYLE_BY_DECISION[decision[1].vibeLabel]
    ELSE IF pm # None /\ TruthyStr(pm[1].style) THEN pm[1].style[1]
    ELSE DictGet(STYLE_BY_INDICATOR, stats.styleIndicator, "chill")

\* Variant of chosen_style that passes on a styleIndicator the table does
\* not know.
chosen_style_indicator_kept(stats, pm, decision) ==
    IF pm # None /\ TruthyStr(pm[1].style) THEN pm[1].style[1]
    ELSE IF decision # None /\ decision[1].vibeLabel \in DOMAIN STYLE_BY_DECISION
         THEN STYLE_BY_DECISION[decision[1].vibeLabel]
    ELSE DictGet(STYLE_BY_INDICATOR, stats.styleIndicator, stats.styleIndicator)

\* Variant of chosen_style that answers "chill" for a decision whose label
\* the table does not know, without asking the styleIndicator.
chosen_style_label_default(stats, pm, decision) ==
    IF pm # None /\ TruthyStr(pm[1].style) THEN pm[1].style[1]
    ELSE IF decision # None THEN DictGet(STYLE_BY_DECISION, decision[1].vibeLabel, "chill")
    ELSE DictGet(STYLE_BY_INDICATOR, stats.styleIndicator, "chill")

\* base_style as first chosen (lines 384-389), before the lighting override.
chosen_style(stats, pm, decision) ==
    IF pm # None /\ TruthyStr(pm[1].style) THEN pm[1].style[1]
    ELSE IF decision # None /\ decision[1].vibeLabel \in DOMAIN STYLE_BY_DECISION
         THEN STYLE_BY_DECISION[decision[1].vibeLabel]
    ELSE DictGet(STYLE_BY_INDICATOR, stats.styleIndicator, "chill")

\* Variant of lighting_override that reacts to strobe lighting only.
lighting_override_strobe_only(style, lightingPattern) ==
    IF lightingPattern = "strobe" /\ style = "upbeat" THEN "electronic" ELSE style

\* Lines 391-392.
lighting_override(style, lightingPattern) ==
    IF lightingPattern \in {"strobe", "dynamic"} /\ style = "upbeat"
    THEN "electronic" ELSE style

base_style(stats, pm, decision) ==
    lighting_override(chosen_style(stats, pm, decision), stats.lightingPattern)

\* Lines 394-397.
vibe_label(pm, decision) ==
    IF pm # None /\ TruthyStr(pm[1].vibeLabel) THEN pm[1].vibeLabel[1]
    ELSE IF decision # None THEN decision[1].vibeLabel ELSE "focused"

\* 78 + clamp(motionLevel, 0, 1) * 60, as a float.
motion_bpm(stats) == 78 * Scale + clamp(stats.motionLevel, 0, One) * 60

\* Variant of target_bpm that takes a promptMetadata.targetBpm of 0 for an
\* absent one.
target_bpm_truthy(stats, pm, decision) ==
    IF pm # None /\ pm[1].targetBpm # None /\ pm[1].targetBpm[1] # 0
    THEN pm[1].targetBpm[1]
    ELSE IF decision # None THEN decision[1].suggestedBPM
    ELSE int(motion_bpm(stats))

\* Lines 399-402 followed by the int() of line 456.
target_bpm(stats, pm, decision) ==
    IF pm # None /\ pm[1].targetBpm # None THEN pm[1].targetBpm[1]
    ELSE IF decision # None THEN decision[1].suggestedBPM
    ELSE int(motion_bpm(stats))

energy_default(stats) ==
    clamp(Mul(stats.motionLevel, F(60)) + Mul(stats.audioEnergy, F(40)), 0, One)

warmth_default(stats) ==
    clamp(F(75) - Mul(((stats.colorTempK - 1800) * Scale) \div (8500 - 1800), F(60))
              + (IF stats.avgBrightness < F(35) THEN F(10) ELSE 0),
          0, One)

formality_default(stats, vibe) ==
    LET formality_base ==
            IF stats.styleIndicator \in {"formal", "professional"} THEN F(85)
            ELSE IF stats.styleIndicator = "casual" THEN F(35) ELSE F(50)
    IN  clamp(formality_base + (IF vibe = "focused" THEN F(10) ELSE 0)
                  - (IF stats.crowdDensity > F(70) THEN F(10) ELSE 0),
              0, One)

focus_default(stats, vibe) ==
    clamp(F(60) - Mul(clamp(stats.noiseLevel, 0, One), F(35))
              + (IF stats.speechProbability > F(55) THEN F(10) ELSE 0)
              + (IF vibe = "focused" THEN F(15) ELSE 0),
          0, One)

acoustic_ratio_default(stats) ==
    LET acoustic_bias ==
            IF stats.styleIndicator \in {"casual", "formal"} THEN F(65)
            ELSE IF stats.styleIndicator = "professional" THEN F(55)
            ELSE IF stats.styleIndicator = "party" THEN F(30) ELSE F(50)
    IN  clamp(acoustic_bias + Mul(warmth_default(stats), F(20))
                  - Mul(clamp(stats.audioEnergy, 0, One), F(20)),
              0, One)

percussion_intensity_default(stats, vibe) ==
    clamp(Mul(clamp(stats.audioEnergy, 0, One), F(50))
              + Mul(clamp(stats.motionLevel, 0, One), F(35))
              + (IF vibe = "bored" THEN F(20) ELSE 0),
          0, One)

dynamics_default(stats, vibe) ==
    clamp(F(40) + Mul(clamp(stats.motionLevel, 0, One), F(15))
              + (IF stats.avgBrightness < F(25) THEN 0 - F(10) ELSE 0)
              + (IF vibe = "party" THEN F(10) ELSE 0),
          0, One)

\* Which list object instrumentation_hints names at lines 421-425: the
\* request's own promptMetadata list, the table's list, or a new list.
fresh_hints_owner(table, pm, style) ==
    IF pm # None /\ TruthyList(pm[1].instrumentationHints) THEN "metadata"
    ELSE IF style \in DOMAIN table THEN "table" ELSE "new"

\* That list object after the two conditional appends of lines 426-429.
fresh_hints_appended(table, pm, style) ==
    LET source ==
            IF fresh_hints_owner(table, pm, style) = "metadata"
            THEN pm[1].instrumentationHints[1]
            ELSE instrumentation_for_style(table, style)
        with_no_vocals ==
            IF ~Contains(source, "no vocals") THEN Append(source, "no vocals") ELSE source
    IN  IF ~Contains(with_no_vocals, "instrumental arrangement")
        THEN Append(with_no_vocals, "instrumental arrangement") ELSE with_no_vocals

\* Lines 431-451.
fresh_mood_keywords(pm, vibe, style) ==
    IF pm # None /\ TruthyList(pm[1].moodKeywords) THEN pm[1].moodKeywords[1]
    ELSE <<vibe, style>>

fresh_environment_summary(stats, pm) ==
    IF pm # None /\ TruthyStr(pm[1].environmentSummary) THEN pm[1].environmentSummary[1]
    ELSE summarise_environment(stats)

fresh_weather_summary(pm, weather) ==
    IF pm # None /\ TruthyStr(pm[1].weatherSummary) THEN pm[1].weatherSummary
    ELSE summarise_weather(weather)

\* The fresh derivation calls summarise_weather at line 444 unless the
\* metadata brings a weather summary.
fresh_raises(req) ==
    /\ ~(req.promptMetadata # None /\ TruthyStr(req.promptMetadata[1].weatherSummary))
    /\ summarise_weather_raises(req.weather)

fresh_description(stats, pm, decision) ==
    IF pm # None /\ TruthyStr(pm[1].description) THEN pm[1].description[1]
    ELSE "Compose " \o base_style(stats, pm, decision) \o " music that supports a "
         \o vibe_label(pm, decision) \o " vibe. Keep tempo near "
         \o ToString(target_bpm(stats, pm, decision)) \o " BPM and respect: "
         \o fresh_environment_summary(stats, pm) \o "."

PmAxis(pm, axis) == IF pm # None THEN pm[1][axis] ELSE None

\* The CreativeMusicBrief constructed at lines 453-471.
fresh_brief(table, req) ==
    LET stats == req.stats
        pm == req.promptMetadata
        decision == req.decision
        style == base_style(stats, pm, decision)
        vibe == vibe_label(pm, decision)
    IN  [style |-> style,
         vibeLabel |-> vibe,
         targetBpm |-> target_bpm(stats, pm, decision),
         energy |-> axis_value(PmAxis(pm, "energy"), energy_default(stats)),
         warmth |-> axis_value(PmAxis(pm, "warmth"), warmth_default(stats)),
         formality |-> axis_value(PmAxis(pm, "formality"), formality_default(stats, vibe)),
         focus |-> axis_value(PmAxis(pm, "focus"), focus_default(stats, vibe)),
         acousticRatio |->
             axis_value(PmAxis(pm, "acousticRatio"), acoustic_ratio_default(stats)),
         percussionIntensity |->
             axis_value(PmAxis(pm, "percussionIntensity"),
                        percussion_intensity_default(stats, vibe)),
         dynamics |-> axis_value(PmAxis(pm, "dynamics"), dynamics_default(stats, vibe)),
         vocalsAllowed |-> "off",
         instrumentationHints |-> Dedup(fresh_hints_appended(table, pm, style)),
         moodKeywords |-> fresh_mood_keywords(pm, vibe, style),
         environmentSummary |-> Some(fresh_environment_summary(stats, pm)),
         weatherSummary |-> fresh_weather_summary(pm, req.weather),
         description |-> fresh_description(stats, pm, decision),
         transition |-> IF pm # None THEN pm[1].transition ELSE None]

\* STYLE_INSTRUMENTS after a fresh derivation: the appends land in the table
\* when the hints were the table's own list.
fresh_table_after(table, req) ==
    LET pm == req.promptMetadata
        style == base_style(req.stats, pm, req.decision)
    IN  IF fresh_hints_owner(table, pm, style) = "table"
        THEN [table EXCEPT ![style] = fresh_hints_appended(table, pm, style)]
        ELSE table

\* The request object after a fresh derivation: the appends land in
\* promptMetadata.instrumentationHints when the hints were that list.
fresh_request_after(table, req) ==
    LET pm == req.promptMetadata
        style == base_style(req.stats, pm, req.decision)
    IN  IF fresh_hints_owner(table, pm, style) = "metadata"
        THEN [req EXCEPT !.promptMetadata =
                  Some([pm[1] EXCEPT !.instrumentationHints =
                            Some(fresh_hints_appended(table, pm, style))])]
        ELSE req

(***************************************************************************)
(* Refinement: request.brief is supplied (lines 472-489).                  *)
(***************************************************************************)

\* Which list object instrumentation names at lines 473-475: a copy of the
\* brief's hints, the table's list, or a new list.
existing_hints_owner(table, b) ==
    IF b.instrumentationHints # <<>> THEN "copy"
    ELSE IF b.style \in DOMAIN table THEN "table" ELSE "new"

\* That list object after the extend of line 476.
existing_hints_extended(table, b) ==
    (IF existing_hints_owner(table, b) = "copy" THEN b.instrumentationHints
     ELSE instrumentation_for_style(table, b.style))
    \o <<"instrumental arrangement", "no vocals">>

\* Variant of existing_vocals_allowed that keeps what the brief says.
existing_vocals_allowed_kept(b) == b.vocalsAllowed

\* Line 481.
existing_vocals_allowed(b) == "off"

\* Lines 483-484.
existing_weather_summary(b, weather) ==
    IF ~TruthyStr(b.weatherSummary) THEN summarise_weather(weather) ELSE b.weatherSummary

\* The refinement calls summarise_weather at line 484 unless the brief
\* brings a weather summary.
existing_raises(req) ==
    /\ ~TruthyStr(req.brief[1].weatherSummary)
    /\ summarise_weather_raises(req.weather)

\* Variant of existing_environment_summary that always derives the summary.
existing_environment_summary_derived(b, stats) == Some(summarise_environment(stats))

\* Lines 485-486.
existing_environment_summary(b, stats) ==
    IF ~TruthyStr(b.environmentSummary) THEN Some(summarise_environment(stats))
    ELSE b.environmentSummary

\* Variant of existing_mood_keywords that adds the label and the style to
\* keywords the brief already has.
existing_mood_keywords_added(b) == b.moodKeywords \o <<b.vibeLabel, b.style>>

\* Lines 487-488.
existing_mood_keywords(b) ==
    IF b.moodKeywords = <<>> THEN <<b.vibeLabel, b.style>> ELSE b.moodKeywords

\* brief.copy(update=brief_updates), lines 479-489.
existing_brief(table, req) ==
    LET b == req.brief[1]
    IN  [b EXCEPT
            !.instrumentationHints = Dedup(existing_hints_extended(table, b)),
            !.vocalsAllowed = existing_vocals_allowed(b),
            !.weatherSummary = existing_weather_summary(b, req.weather),
            !.environmentSummary = existing_environment_summary(b, req.stats),
            !.moodKeywords = existing_mood_keywords(b)]

\* STYLE_INSTRUMENTS after a refinement: the extend lands in the table when
\* the instrumentation was the table's own list.
existing_table_after(table, req) ==
    LET b == req.brief[1]
    IN  IF existing_hints_owner(table, b) = "table"
        THEN [table EXCEPT ![b.style] = existing_hints_extended(table, b)]
        ELSE table

(***************************************************************************)
(* The music MCP server, mcp_elevenlabs_server.py.                         *)
(*                                                                         *)
(*   arguments     the tool arguments: a record of Optionals, None for a   *)
(*                 key the caller left out.                                *)
(*   text          the text of a TextContent: [json |-> v] is the JSON     *)
(*                 document json.dumps(v) writes, [plain |-> s] is text s  *)
(*                 that is no JSON document.                               *)
(*   http          what the ElevenLabs endpoint does with one request:     *)
(*                 the POST fails (failed), or answers with a status, a    *)
(*                 body and a Content-Type.                                *)
(***************************************************************************)

MUSIC_STYLE_PROMPTS ==
    [upbeat |-> "Upbeat energetic pop music with bright melodies and positive vibes",
     chill |-> "Chill ambient indie music with soft acoustic tones and relaxing atmosphere",
     cozy |-> "Cozy jazz with gentle piano and warm intimate feeling",
     dynamic |-> "Dynamic electronic music with powerful beats and driving energy",
     ambient |-> "Calm atmospheric ambient music for relaxation and meditation",
     classical |-> "Beautiful classical music with orchestral arrangements",
     rock |-> "Energetic rock music with driving guitars and strong rhythm",
     jazz |-> "Smooth jazz with improvised melodies and sophisticated harmonies",
     electronic |-> "Modern electronic music with synthesizers and digital beats",
     acoustic |-> "Intimate acoustic music with natural instruments and organic sound"]

\* The tools the server lists (lines 43-72).
handle_list_tools ==
    <<[name |-> "generate_music",
       inputSchema |->
           [style |->
                <<"upbeat", "chill", "cozy", "dynamic", "ambient", "classical", "rock",
                  "jazz", "electronic", "acoustic">>,
            required |-> <<"style", "description">>]]>>

\* arguments.get(key, default)
ArgGet(arguments, key, default) ==
    IF arguments[key] # None THEN arguments[key][1] ELSE default

JsonDumps(value) == [json |-> value]

\* json.loads(text): the value of a JSON document, None for any other text
\* (where Python raises JSONDecodeError).
JsonLoads(text) == IF "json" \in DOMAIN text THEN Some(text.json) ELSE None

TextContent(text) == [type |-> "text", text |-> text]

\* strftime("%Y%m%d_%H%M%S") of the clock: one text per second.
Timestamp(now) == ToString(now)

\* Writing name into the directory replaces a file of that name.
WriteFile(dir, name, content) ==
    {f \in dir : f[1] # name} \cup {<<name, content>>}

\* Variant of mock_result that names a placeholder file.
mock_result_with_file(prompt, style, duration_seconds) ==
    [status |-> "success", style |-> style, duration_seconds |-> duration_seconds,
     prompt |-> prompt, music_file |-> Some("/tmp/elevenlabs_music/mock.mp3"),
     message |-> "Music generation mocked - ELEVENLABS_API_KEY not provided",
     recommendation |->
         "Perfect " \o style
         \o " style music! The generated track would match this vibe perfectly."]

\* Lines 117-128: the answer without an API key.
mock_result(prompt, style, duration_seconds) ==
    [status |-> "success", style |-> style, duration_seconds |-> duration_seconds,
     prompt |-> prompt, music_file |-> None,
     message |-> "Music generation mocked - ELEVENLABS_API_KEY not provided",
     recommendation |->
         "Perfect " \o style
         \o " style music! The generated track would match this vibe perfectly."]

\* Lines 161-169 and 199-209: the two answers that report a failure.
error_result(prompt, style, duration_seconds, message, occasion) ==
    [status |-> "error", style |-> style, duration_seconds |-> duration_seconds,
     prompt |-> prompt, music_file |-> None, message |-> message,
     recommendation |->
         "Although music generation failed, " \o style \o " style music would be perfect for "
         \o occasion]

\* Lines 175-182.
server_file_path(style, now) ==
    "/tmp/elevenlabs_music/elevenlabs_music_" \o style \o "_" \o Timestamp(now) \o ".mp3"

\* Whether _call_elevenlabs_api gets as far as writing the audio and the
\* write succeeds (lines 130-187).
server_writes(key, http, disk) ==
    TruthyStr(key) /\ ~http.failed /\ http.status = 200 /\ disk = "ok"

\* _call_elevenlabs_api of the server (lines 115-209).
server_call_elevenlabs_api(key, prompt, style, duration_seconds, http, disk, now) ==
    IF ~TruthyStr(key) THEN mock_result(prompt, style, duration_seconds)
    ELSE IF http.failed
         THEN error_result(prompt, style, duration_seconds,
                           "Error generating music: Cannot connect to host",
                           "this type of musical atmosphere!")
    ELSE IF http.status # 200
         THEN error_result(prompt, style, duration_seconds,
                           "ElevenLabs API error: " \o ToString(http.status),
                           "the intended vibe!")
    ELSE IF disk # "ok"
         THEN error_result(prompt, style, duration_seconds,
                           "Error generating music: [Errno 13] Permission denied",
                           "this type of musical atmosphere!")
    ELSE [status |-> "success", style |-> style, duration_seconds |-> duration_seconds,
          prompt |-> prompt, music_file |-> Some(server_file_path(style, now)),
          message |->
              "Successfully generated " \o ToString(duration_seconds)
              \o "-second music track in " \o style \o " style",
          recommendation |->
              "Perfect " \o style
              \o " style music! The generated track captures the musical mood beautifully."]

\* Line 93.
valid_style(arguments) ==
    /\ arguments.style # None
    /\ arguments.style[1] # ""
    /\ arguments.style[1] \in DOMAIN MUSIC_STYLE_PROMPTS

\* Variant of _generate_music that turns away only a missing or empty style.
generate_music_any_style(key, arguments, http, disk, now) ==
    IF arguments.style = None \/ arguments.style[1] = ""
    THEN <<TextContent([plain |->
               "Invalid style. Must be one of: upbeat, chill, cozy, dynamic, ambient, classical, rock, jazz, electronic, acoustic"])>>
    ELSE LET style == arguments.style[1]
             description == ArgGet(arguments, "description", "")
             duration_seconds == ArgGet(arguments, "duration_seconds", 60)
             enhanced_prompt == DictGet(MUSIC_STYLE_PROMPTS, style, style) \o ". " \o description
         IN  <<TextContent(JsonDumps(
                   server_call_elevenlabs_api(key, enhanced_prompt, style, duration_seconds,
                                              http, disk, now)))>>

\* _generate_music (lines 86-112). No argument a JSON request can carry makes
\* lines 89-108 raise, so the except clause of line 110 is not entered.
generate_music(key, arguments, http, disk, now) ==
    IF ~valid_style(arguments)
    THEN <<TextContent([plain |->
               "Invalid style. Must be one of: upbeat, chill, cozy, dynamic, ambient, classical, rock, jazz, electronic, acoustic"])>>
    ELSE LET style == arguments.style[1]
             description == ArgGet(arguments, "description", "")
             duration_seconds == ArgGet(arguments, "duration_seconds", 60)
             enhanced_prompt == MUSIC_STYLE_PROMPTS[style] \o ". " \o description
         IN  <<TextContent(JsonDumps(
                   server_call_elevenlabs_api(key, enhanced_prompt, style, duration_seconds,
                                              http, disk, now)))>>

\* handle_call_tool (lines 75-81): what the call returns, or the exception
\* it raises for another tool name.
handle_call_tool(key, name, arguments, http, disk, now) ==
    IF name = "generate_music"
    THEN [content |-> Some(generate_music(key, arguments, http, disk, now)),
          raised |-> None]
    ELSE [content |-> None, raised |-> Some("ValueError")]

\* Whether handle_call_tool sends a request to the ElevenLabs endpoint: the
\* style was accepted and there is a key (lines 88, 117 and 152).
server_posts(key, name, arguments) ==
    name = "generate_music" /\ valid_style(arguments) /\ TruthyStr(key)

\* The file system stamps a written file with the time of the write; who
\* wrote it (the handler of which request, or another client) is kept beside
\* it.
Touch(stat, name, now, who) == (name :> [mtime |-> now, writer |-> who]) @@ stat

\* The modification times after handle_call_tool.
server_stat_after(stat, key, name, arguments, http, disk, now, who) ==
    IF name = "generate_music" /\ valid_style(arguments) /\ server_writes(key, http, disk)
    THEN Touch(stat, server_file_path(arguments.style[1], now), now, who)
    ELSE stat

\* The music directory after handle_call_tool.
server_files_after(dir, key, name, arguments, http, disk, now) ==
    IF name = "generate_music" /\ valid_style(arguments) /\ server_writes(key, http, disk)
    THEN WriteFile(dir, server_file_path(arguments.style[1], now), http.body)
    ELSE dir

(***************************************************************************)
(* The ElevenLabs client and its command line, elevenlabs_music_api.py.    *)
(* The prompt text of the request payload is not tracked.                  *)
(***************************************************************************)

\* The markers _guess_extension finds in the lower-cased Content-Type.
MimeMarkers(mime) ==
    CASE mime = "audio/wav" -> {"wav"}
      [] mime = "audio/x-wav" -> {"wav", "x-wav"}
      [] mime = "audio/ogg" -> {"ogg"}
      [] mime = "audio/flac" -> {"flac"}
      [] mime = "audio/aac" -> {"aac"}
      [] mime = "audio/opus" -> {"opus"}
      [] OTHER -> {}

\* _guess_extension (lines 154-168).
guess_extension(mime_type) ==
    LET mime == MimeMarkers(mime_type)
    IN  IF "wav" \in mime \/ "x-wav" \in mime \/ "wave" \in mime THEN "wav"
        ELSE IF "ogg" \in mime THEN "ogg"
        ELSE IF "flac" \in mime THEN "flac"
        ELSE IF "aac" \in mime THEN "aac"
        ELSE IF "m4a" \in mime THEN "m4a"
        ELSE IF "opus" \in mime THEN "opus"
        ELSE "mp3"

\* Variant of duration_ms that sends the duration as it is given.
duration_ms_unclamped(duration_seconds) == duration_seconds * 1000

\* Line 85, for the whole seconds the command line passes.
duration_ms(duration_seconds) == Max2(10000, Min2(300000, duration_seconds * 1000))

\* Lines 124-127.
api_file_path(uuid, now, mime_type) ==
    "/tmp/elevenlabs_music/elevenlabs-music-" \o uuid \o "-" \o ToString(now) \o "."
    \o guess_extension(mime_type)

\* The exception _call_elevenlabs_api ends in, None when it returns: the key
\* test of line 71, session.post of line 102, response.json of line 109 on a
\* JSON body that does not parse, the raises of lines 114 and 120, and
\* write_bytes of line 130.
api_raises(key, http, disk) ==
    IF ~TruthyStr(key) THEN Some("ElevenLabsAPIError")
    ELSE IF http.failed THEN Some("ClientConnectorError")
    ELSE IF http.status # 200
         THEN IF http.contentType = Some("application/json") /\ http.body # ""
                 /\ http.parsed = None
              THEN Some("JSONDecodeError")
              ELSE Some("ElevenLabsAPIError")
    ELSE IF http.body = "" THEN Some("ElevenLabsAPIError")
    ELSE IF disk # "ok" THEN Some("PermissionError")
    ELSE None

\* _call_elevenlabs_api of the client (lines 45-137): the exception raised,
\* the dict returned, the payload posted and the file written.
call_elevenlabs_api(key, duration_seconds, http, disk, uuid, now) ==
    LET mime_type == IF http.contentType # None THEN http.contentType[1] ELSE "audio/mpeg"
        file_path == api_file_path(uuid, now, mime_type)
        raises == api_raises(key, http, disk)
    IN  [raised |-> raises,
         posted |->
             IF TruthyStr(key)
             THEN Some([music_length_ms |-> duration_ms(duration_seconds),
                        model_id |-> "music_v1", output_format |-> "mp3_44100_128"])
             ELSE None,
         written |-> IF raises = None THEN Some(<<file_path, http.body>>) ELSE None,
         result |->
             IF raises = None
             THEN Some([music_file |-> file_path,
                        duration_seconds |->
                            duration_ms(duration_seconds) * (Scale \div 1000),
                        mime_type |-> mime_type, message |-> None])
             ELSE None]

\* Variant of async_main that returns 0 whatever the call did.
async_main_always_zero(call) == Some(0)

\* _async_main (lines 171-183): the exit code returned, None when an
\* exception other than ElevenLabsAPIError passes through.
async_main(call) ==
    IF call.raised = None THEN Some(0)
    ELSE IF call.raised = Some("ElevenLabsAPIError") THEN Some(1)
    ELSE None

(***************************************************************************)
(* The requests the model supplies.                                        *)
(***************************************************************************)

\* Longest instrument list a table entry may reach: a request whose handling
\* would extend an entry past it is not supplied.
MaxHints == 8

BaseStats ==
    [avgBrightness |-> F(50), colorTempK |-> 5150, motionLevel |-> F(50),
     crowdDensity |-> F(40), styleIndicator |-> "mixed",
     dominantColors |-> <<"red", "amber", "teal", "white">>,
     lightingPattern |-> "steady", audioEnergy |-> F(40), noiseLevel |-> F(20),
     speechProbability |-> F(30)]

NoMetadata ==
    [style |-> None, description |-> None, vibeLabel |-> None, weatherSummary |-> None,
     targetBpm |-> None, energy |-> None, warmth |-> None, formality |-> None,
     focus |-> None, acousticRatio |-> None, percussionIntensity |-> None,
     dynamics |-> None, vocalsAllowed |-> None, instrumentationHints |-> None,
     moodKeywords |-> None, environmentSummary |-> None, transition |-> None]

Decision(label, bpm) ==
    [vibeLabel |-> label, suggestedBPM |-> bpm, suggestedVolume |-> F(50),
     spokenTip |-> "tip"]

Weather(location, description, temperature, humidity) ==
    [location |-> location, description |-> description, temperature |-> temperature,
     humidity |-> humidity]

\* No snapshot, a usual one, an empty one, and one whose temperature
\* overflowed to infinity when the JSON body was parsed.
Weathers ==
    {None,
     Some(Weather(Some("Berlin"), Some("Light Rain"), Some(F(1250)), Some(80))),
     Some(Weather(None, None, None, None)),
     Some(Weather(Some("Oslo"), Some("Clear Sky"), Some(Infinity), Some(40)))}

\* An existing brief as a frontend sends it.
Brief(style, hints, vocals, axis, summary, mood) ==
    [style |-> style, vibeLabel |-> "chill", targetBpm |-> 96,
     energy |-> axis, warmth |-> axis, formality |-> axis, focus |-> axis,
     acousticRatio |-> axis, percussionIntensity |-> axis, dynamics |-> axis,
     vocalsAllowed |-> vocals, instrumentationHints |-> hints, moodKeywords |-> mood,
     environmentSummary |-> summary, weatherSummary |-> summary,
     description |-> "frontend brief",
     transition |-> Some([previousStyle |-> Some("jazz"), smoothness |-> Some(F(60))])]

Request(stats, pm, decision, weather, b) ==
    [stats |-> stats, promptMetadata |-> pm, decision |-> decision, weather |-> weather,
     brief |-> b]

\* Requests of the call sequences: every source of instrumentation hints,
\* on both paths, for styles that share table entries.
CallMetadatas ==
    {None,
     Some([NoMetadata EXCEPT !.style = Some("jazz")]),
     Some([NoMetadata EXCEPT !.style = Some("polka")]),
     Some([NoMetadata EXCEPT !.instrumentationHints = Some(<<"sax", "sax">>),
                             !.vocalsAllowed = Some("lead")]),
     Some([NoMetadata EXCEPT !.instrumentationHints = Some(<<"no vocals", "piano">>)]),
     Some([NoMetadata EXCEPT !.instrumentationHints = Some(<<>>),
                             !.vocalsAllowed = Some("low")])}

CallBriefs ==
    {Brief(style, hints, x[1], F(50), x[2], x[3]) :
        style \in {"upbeat", "jazz", "polka"},
        hints \in {<<>>, <<"claps", "no vocals", "claps">>},
        x \in {<<"lead", None, <<>>>>, <<"low", Some("custom"), <<"calm">>>>}}

FreshCallRequests ==
    {Request([BaseStats EXCEPT !.styleIndicator = ind, !.lightingPattern = light],
             pm, None, None, None) :
        ind \in {"party", "formal"}, light \in {"steady", "strobe"}, pm \in CallMetadatas}

ExistingCallRequests ==
    {Request(BaseStats, None, None, w, Some(b)) :
        w \in {None, Some(Weather(Some("Berlin"), Some("Light Rain"), Some(F(1250)), Some(80)))},
        b \in CallBriefs}

Requests == FreshCallRequests \cup ExistingCallRequests

\* Requests of the single-call runs: the sensor readings on a grid that
\* reaches below 0 and above 1, every categorical value and an unknown one.
NumericStats ==
    {[BaseStats EXCEPT !.motionLevel = m, !.audioEnergy = a, !.colorTempK = k,
                       !.avgBrightness = b, !.crowdDensity = c, !.noiseLevel = n,
                       !.speechProbability = sp, !.styleIndicator = ind] :
        m \in {F(0 - 50), F(50), F(51), F(150)},
        a \in {F(0 - 50), F(40), F(200)},
        k \in {1800 - 6700, 5150, 1800 + 2 * 6700},
        b \in {F(20), F(30), F(50)},
        c \in {F(40), F(90)},
        n \in {F(20), F(300)},
        sp \in {F(30), F(80)},
        ind \in {"formal", "casual", "party", "professional", "unrecognized"}}

AxisMetadatas ==
    {None,
     Some([NoMetadata EXCEPT !.energy = Some(F(150)), !.warmth = Some(F(150)),
                             !.formality = Some(F(150)), !.focus = Some(F(150)),
                             !.acousticRatio = Some(F(150)),
                             !.percussionIntensity = Some(F(150)),
                             !.dynamics = Some(F(150))]),
     Some([NoMetadata EXCEPT !.energy = Some(0), !.warmth = Some(F(0 - 30)),
                             !.targetBpm = Some(0)])}

AxisRequests ==
    {Request(stats, pm, d, None, None) :
        stats \in NumericStats, pm \in AxisMetadatas,
        d \in {None, Some(Decision("bored", 84)), Some(Decision("party", 128))}}

StyleRequests ==
    {Request([BaseStats EXCEPT !.styleIndicator = ind, !.lightingPattern = light],
             IF st = None THEN None ELSE Some([NoMetadata EXCEPT !.style = st[1]]),
             IF label = None THEN None ELSE Some(Decision(label[1], 100)),
             None, None) :
        ind \in {"party", "formal", "professional", "casual", "mixed", "unrecognized"},
        light \in {"steady", "dynamic", "strobe", "dim"},
        st \in {None, Some(None), Some(Some("")), Some(Some("jazz")),
                Some(Some("upbeat")), Some(Some("polka"))},
        label \in {None, Some("party"), Some("chill"), Some("focused"), Some("bored"),
                   Some("weird")}}

OnceBriefs ==
    {Brief(style, hints, vocals, axis, summary, mood) :
        style \in {"upbeat", "jazz", "polka"},
        hints \in {<<>>, <<"claps", "no vocals", "claps">>},
        vocals \in {"off", "low", "lead"},
        axis \in {F(0 - 20), F(50), F(150)},
        summary \in {None, Some(""), Some("custom")},
        mood \in {<<>>, <<"calm">>}}

ExistingRequests ==
    {Request(stats, pm, d, w, Some(b)) :
        stats \in {BaseStats,
                   [BaseStats EXCEPT !.styleIndicator = "party",
                                     !.lightingPattern = "strobe",
                                     !.motionLevel = F(150)]},
        pm \in {None,
                Some([NoMetadata EXCEPT !.style = Some("classical"),
                                        !.environmentSummary = Some("metadata room"),
                                        !.weatherSummary = Some("metadata sky"),
                                        !.moodKeywords = Some(<<"bright">>),
                                        !.energy = Some(F(10)),
                                        !.targetBpm = Some(140),
                                        !.vocalsAllowed = Some("lead")])},
        d \in {None, Some(Decision("party", 128))},
        w \in Weathers,
        b \in OnceBriefs}

\* Fresh derivations under every weather snapshot, with and without a
\* weather summary in the metadata.
WeatherRequests ==
    {Request(stats, pm, d, w, None) :
        stats \in {BaseStats,
                   [BaseStats EXCEPT !.styleIndicator = "party",
                                     !.lightingPattern = "strobe"]},
        pm \in {None,
                Some([NoMetadata EXCEPT !.weatherSummary = Some("metadata sky")]),
                Some([NoMetadata EXCEPT !.weatherSummary = Some("")])},
        d \in {None, Some(Decision("party", 128))},
        w \in Weathers}

\* Most files the music directory holds while calls are made, and the last
\* second of the clock.
MaxFiles == 1
MaxClock == 1

\* What the ElevenLabs endpoint may do with a request. parsed is the value
\* of the body as JSON, None for a body that is no JSON document.
Http(status, contentType, body, parsed) ==
    [failed |-> FALSE, status |-> status, contentType |-> contentType, body |-> body,
     parsed |-> parsed]

HttpOutcomes ==
    {[failed |-> TRUE, status |-> 0, contentType |-> None, body |-> "", parsed |-> None],
     Http(200, Some("audio/mpeg"), "ID3", None),
     Http(200, Some("audio/wav"), "RIFF", None),
     Http(200, None, "ID3", None),
     Http(200, Some("audio/mpeg"), "", None),
     Http(401, Some("application/json"), "{\"message\": \"Invalid API key\"}",
          Some([message |-> Some("Invalid API key")])),
     Http(500, Some("text/html"), "Internal Server Error", None),
     Http(502, Some("application/json"), "<html>Bad Gateway</html>", None)}

\* Whether the directory lets the process create the file.
DiskOutcomes == {"ok", "denied"}

\* The key as os.getenv finds it: unset, set to nothing, set.
Keys == {None, Some(""), Some("sk_test")}

ToolArguments ==
    {[style |-> style, description |-> description, duration_seconds |-> duration] :
        style \in {None} \cup {Some(st) : st \in DOMAIN MUSIC_STYLE_PROMPTS \cup {"", "polka"}},
        description \in {None, Some("Smooth late-night lounge soundtrack")},
        duration \in {None, Some(12)}}

\* uuid.uuid4().hex[:8]
Uuids == {"1f0e3dad", "9a4c0b7e"}

\* --duration
Durations == {0 - 5, 5, 10, 60, 300, 400}

(***************************************************************************)
(* The handler as a state machine.                                         *)
(***************************************************************************)

\* The weather processes before they are started.
WeatherNotStarted ==
    /\ OPENWEATHER_API_KEY = None
    /\ weatherResult = None
    /\ lookup = None
    /\ mcp_tools = None
    /\ weatherResponse = None

\* The endpoint before its first request, over an empty music directory.
EndpointNotStarted ==
    /\ handlers = <<>>
    /\ file_stat = <<>>
    /\ generated = <<>>

\* The music processes before they are started.
MusicNotStarted ==
    /\ elevenlabs_api_key = None
    /\ ELEVENLABS_API_KEY = None
    /\ clock = 0
    /\ files = {}
    /\ toolResult = None
    /\ cli = None

Init ==
    /\ STYLE_INSTRUMENTS = InitialStyleInstruments
    /\ request = None
    /\ requestAfter = None
    /\ brief = None
    /\ raised = None
    /\ earlier = None
    /\ MusicNotStarted
    /\ WeatherNotStarted
    /\ EndpointNotStarted

\* The resolver before its first request.
ResolverNotStarted ==
    /\ STYLE_INSTRUMENTS = InitialStyleInstruments
    /\ request = None
    /\ requestAfter = None
    /\ brief = None
    /\ raised = None
    /\ earlier = None

\* Whether handling req keeps the table entry it mutates within MaxHints.
WithinMaxHints(req) ==
    IF req.brief = None
    THEN LET pm == req.promptMetadata
             style == base_style(req.stats, pm, req.decision)
         IN  fresh_hints_owner(STYLE_INSTRUMENTS, pm, style) = "table"
                 => Len(fresh_hints_appended(STYLE_INSTRUMENTS, pm, style)) <= MaxHints
    ELSE existing_hints_owner(STYLE_INSTRUMENTS, req.brief[1]) = "table"
             => Len(existing_hints_extended(STYLE_INSTRUMENTS, req.brief[1])) <= MaxHints

\* A request arrives at POST /api/vibe/generate-music; the handler runs one
\* request at a time up to line 489.
Receive(req) ==
    /\ request = None \/ brief # None \/ raised # None
    /\ WithinMaxHints(req)
    /\ request' = Some(req)
    /\ requestAfter' = None
    /\ brief' = None
    /\ raised' = None
    /\ UNCHANGED <<STYLE_INSTRUMENTS, earlier, music, weather_state, endpoint_state>>

ReceiveRequest == \E req \in Requests : Receive(req)

\* Lines 382-471. The appends of lines 426-429 come before the weather
\* summary of line 444, so they are made even when that line raises; the
\* exception leaves the handler through the except clause of line 710.
ResolveFresh ==
    /\ request # None /\ brief = None /\ raised = None
    /\ request[1].brief = None
    /\ IF fresh_raises(request[1])
       THEN brief' = None /\ raised' = Some("OverflowError")
       ELSE brief' = Some(fresh_brief(STYLE_INSTRUMENTS, request[1])) /\ raised' = None
    /\ STYLE_INSTRUMENTS' = fresh_table_after(STYLE_INSTRUMENTS, request[1])
    /\ requestAfter' = Some(fresh_request_after(STYLE_INSTRUMENTS, request[1]))
    /\ UNCHANGED <<request, earlier, music, weather_state, endpoint_state>>

\* Lines 472-489. The extend of line 476 comes before the weather summary of
\* line 484.
ResolveExisting ==
    /\ request # None /\ brief = None /\ raised = None
    /\ request[1].brief # None
    /\ IF existing_raises(request[1])
       THEN brief' = None /\ raised' = Some("OverflowError")
       ELSE brief' = Some(existing_brief(STYLE_INSTRUMENTS, request[1])) /\ raised' = None
    /\ STYLE_INSTRUMENTS' = existing_table_after(STYLE_INSTRUMENTS, request[1])
    /\ requestAfter' = request
    /\ UNCHANGED <<request, earlier, music, weather_state, endpoint_state>>

Next == ReceiveRequest \/ ResolveFresh \/ ResolveExisting

Spec == Init /\ [][Next]_vars

\* One request is handled by a fresh process.
InitOnce ==
    /\ STYLE_INSTRUMENTS = InitialStyleInstruments
    /\ \/ request \in {Some(req) : req \in AxisRequests}
       \/ request \in {Some(req) : req \in StyleRequests}
       \/ request \in {Some(req) : req \in ExistingRequests}
       \/ request \in {Some(req) : req \in WeatherRequests}
    /\ requestAfter = None
    /\ brief = None
    /\ raised = None
    /\ earlier = None
    /\ MusicNotStarted
    /\ WeatherNotStarted
    /\ EndpointNotStarted

NextOnce == ResolveFresh \/ ResolveExisting

SpecOnce == InitOnce /\ [][NextOnce]_vars

\* A caller keeps one call's request and response to compare a later call
\* with it.
Observe ==
    /\ brief # None /\ earlier = None
    /\ earlier' = Some([request |-> request[1], brief |-> brief[1]])
    /\ UNCHANGED <<STYLE_INSTRUMENTS, request, requestAfter, brief, raised, music, weather_state, endpoint_state>>

\* The requests of the compared call sequences: both paths, with and without
\* hints of their own, for styles that share a table entry and one that has none.
ProbeRequests ==
    {req \in Requests :
        /\ req.weather = None
        /\ req.stats.lightingPattern = "steady"
        /\ req.stats.styleIndicator \in {"party", "mixed"}
        /\ req.brief # None => req.brief[1].vocalsAllowed = "lead"}

ReceiveProbe == \E req \in ProbeRequests : Receive(req)

NextCalls == ReceiveProbe \/ ResolveFresh \/ ResolveExisting \/ Observe

SpecCalls == Init /\ [][NextCalls]_vars

\* The requests of the pass-through runs: both paths, with and without a
\* weather snapshot, with hints of their own and without.
PassRequests ==
    {Request([BaseStats EXCEPT !.styleIndicator = ind], pm, None, w, None) :
        ind \in {"party", "mixed"},
        pm \in {None,
                Some([NoMetadata EXCEPT !.style = Some("polka")]),
                Some([NoMetadata EXCEPT !.instrumentationHints = Some(<<"sax", "sax">>),
                                        !.weatherSummary = Some("metadata sky")])},
        w \in {None, Some(Weather(Some("Berlin"), Some("Light Rain"), Some(F(1250)), Some(80)))}}
    \cup {req \in ExistingCallRequests :
              /\ req.brief[1].style \in {"upbeat", "polka"}
              /\ req.brief[1].vocalsAllowed = "lead"}

ReceivePass == \E req \in PassRequests : Receive(req)

\* The caller sends the brief it kept back as the existing brief, with the
\* stats and the weather of the call that returned it.
FeedBack ==
    /\ earlier # None
    /\ Receive([earlier[1].request EXCEPT !.brief = Some(earlier[1].brief)])

NextPass == ReceivePass \/ ResolveFresh \/ ResolveExisting \/ Observe \/ FeedBack

SpecPass == Init /\ [][NextPass]_vars

\* The MCP server is started with the key its environment holds.
InitServer ==
    /\ ResolverNotStarted
    /\ elevenlabs_api_key \in Keys
    /\ ELEVENLABS_API_KEY = None
    /\ clock = 0
    /\ files = {}
    /\ toolResult = None
    /\ cli = None
    /\ WeatherNotStarted
    /\ EndpointNotStarted

\* A second passes.
Tick ==
    /\ clock < MaxClock
    /\ clock' = clock + 1
    /\ UNCHANGED <<resolver, elevenlabs_api_key, ELEVENLABS_API_KEY, files, toolResult, cli,
                   weather_state, endpoint_state>>

\* A tools/call request is handled (lines 75-112); the clock is read once
\* the endpoint has answered (line 175).
ServerCall(name, arguments, http, disk) ==
    /\ toolResult' =
           Some([name |-> name, arguments |-> arguments,
                 posted |-> server_posts(elevenlabs_api_key, name, arguments)] @@
                handle_call_tool(elevenlabs_api_key, name, arguments, http, disk, clock))
    /\ files' = server_files_after(files, elevenlabs_api_key, name, arguments, http, disk,
                                   clock)
    /\ file_stat' = server_stat_after(file_stat, elevenlabs_api_key, name, arguments, http,
                                      disk, clock, "client")
    /\ UNCHANGED <<resolver, elevenlabs_api_key, ELEVENLABS_API_KEY, clock, cli,
                   weather_state, handlers>>

CallTool(name, arguments, http, disk) ==
    /\ Cardinality(files) < MaxFiles
    /\ ServerCall(name, arguments, http, disk)
    /\ UNCHANGED generated

\* The server reads the status and the body only, and writes only after a
\* status of 200.
ServerOutcomes ==
    {o \in HttpOutcomes \X DiskOutcomes :
        /\ o[1].contentType \in {None, Some("audio/mpeg"), Some("text/html")}
        /\ o[1].contentType = None => o[1].failed
        /\ o[2] = "denied" => o[1].status = 200 /\ o[1].body # ""}

HandleCallTool ==
    \E arguments \in ToolArguments :
        \/ \E o \in ServerOutcomes : CallTool("generate_music", arguments, o[1], o[2])
        \/ CallTool("play_music", arguments, CHOOSE http \in HttpOutcomes : http.failed, "ok")

NextServer == HandleCallTool \/ Tick

SpecServer == InitServer /\ [][NextServer]_vars

\* The command line is run in an environment that holds the key or not.
InitCli ==
    /\ ResolverNotStarted
    /\ elevenlabs_api_key = None
    /\ ELEVENLABS_API_KEY \in Keys
    /\ clock = 0
    /\ files = {}
    /\ toolResult = None
    /\ cli = None
    /\ WeatherNotStarted
    /\ EndpointNotStarted

\* One run of the command line (lines 171-206).
RunCli(duration, http, disk, uuid) ==
    LET call == call_elevenlabs_api(ELEVENLABS_API_KEY, duration, http, disk, uuid, clock)
    IN  /\ Cardinality(files) < MaxFiles
        /\ cli' = Some([duration |-> duration, http |-> http, disk |-> disk,
                        call |-> call, returned |-> async_main(call)])
        /\ files' = IF call.written # None
                    THEN WriteFile(files, call.written[1][1], call.written[1][2])
                    ELSE files
        /\ file_stat' = IF call.written # None
                        THEN Touch(file_stat, call.written[1][1], clock, "cli")
                        ELSE file_stat
        /\ UNCHANGED <<resolver, elevenlabs_api_key, ELEVENLABS_API_KEY, clock, toolResult,
                       weather_state, handlers, generated>>

RunCommandLine ==
    \E duration \in Durations, http \in HttpOutcomes, disk \in DiskOutcomes,
       uuid \in Uuids :
        RunCli(duration, http, disk, uuid)

NextCli == RunCommandLine \/ Tick

SpecCli == InitCli /\ [][NextCli]_vars

(***************************************************************************)
(* Properties.                                                             *)
(***************************************************************************)

Axes ==
    {"energy", "warmth", "formality", "focus", "acousticRatio", "percussionIntensity",
     "dynamics"}

Resolved == request # None /\ brief # None
ResolvedFresh == Resolved /\ request[1].brief = None
ResolvedExisting == Resolved /\ request[1].brief # None

NoDuplicates(xs) == \A i, j \in 1..Len(xs) : xs[i] = xs[j] => i = j

\* C1: every axis of every resolved brief lies in [0,1], on the fresh path
\* and on the existing-brief path alike.
AxisBounds ==
    Resolved => \A a \in Axes : 0 <= brief[1][a] /\ brief[1][a] <= One

\* C2: vocalsAllowed of every resolved brief is "off".
VocalsOff == Resolved => brief[1].vocalsAllowed = "off"

VocalsOffWitness ==
    /\ ResolvedExisting
    /\ request[1].brief[1].vocalsAllowed = "lead"
    /\ brief[1].vocalsAllowed = "off"

\* C3: the resolved instrumentationHints hold "no vocals" and "instrumental
\* arrangement" and no string twice, whatever the source of the hints and
\* whatever calls came before.
HintsNormalised ==
    Resolved =>
        /\ Contains(brief[1].instrumentationHints, "no vocals")
        /\ Contains(brief[1].instrumentationHints, "instrumental arrangement")
        /\ NoDuplicates(brief[1].instrumentationHints)

\* The hints came from a table entry that earlier calls left with repeats.
HintsNormalisedWitness ==
    /\ ResolvedExisting
    /\ request[1].brief[1].instrumentationHints = <<>>
    /\ request[1].brief[1].style = "upbeat"
    /\ ~NoDuplicates(STYLE_INSTRUMENTS["upbeat"])
    /\ NoDuplicates(brief[1].instrumentationHints)

\* C4: within one process, a call whose inputs equal those of an earlier
\* call returns the brief the earlier call returned.
Deterministic ==
    (Resolved /\ earlier # None /\ request[1] = earlier[1].request)
        => brief[1] = earlier[1].brief

\* A fresh call repeated after refinements extended the entry it reads.
DeterministicWitness ==
    /\ ResolvedFresh /\ earlier # None
    /\ request[1] = earlier[1].request
    /\ request[1].promptMetadata = None
    /\ Len(STYLE_INSTRUMENTS["upbeat"]) = Len(InitialStyleInstruments["upbeat"]) + 4
    /\ brief[1] = earlier[1].brief

\* C5: resolving leaves the module-level instrument table as it was loaded.
TableUnchanged == STYLE_INSTRUMENTS = InitialStyleInstruments

\* C6: resolving leaves the request objects as they were received.
InputsUnchanged == requestAfter # None => requestAfter[1] = request[1]

\* The style a fresh derivation must return when promptMetadata.style decides:
\* that style, or "electronic" for "upbeat" under strobe or dynamic lighting.
MetadataStyleResolved ==
    LET style == request[1].promptMetadata[1].style[1]
    IN  brief[1].style =
            IF style = "upbeat" /\ request[1].stats.lightingPattern \in {"strobe", "dynamic"}
            THEN "electronic" ELSE style

\* C7 as stated: in fresh derivation a promptMetadata.style that is present
\* (not null) decides the style, whatever the decision label and the
\* styleIndicator.
PresentStyleWins ==
    (/\ ResolvedFresh
     /\ request[1].promptMetadata # None
     /\ request[1].promptMetadata[1].style # None)
        => MetadataStyleResolved

\* C7 as amended: in fresh derivation a promptMetadata.style that is present
\* and not the empty string decides the style, whatever the decision label
\* and the styleIndicator.
NonEmptyStyleWins ==
    (/\ ResolvedFresh
     /\ request[1].promptMetadata # None
     /\ TruthyStr(request[1].promptMetadata[1].style))
        => MetadataStyleResolved

\* Style "jazz" against a decision and an indicator that both say party.
NonEmptyStyleWinsWitness ==
    /\ ResolvedFresh
    /\ request[1].promptMetadata # None
    /\ request[1].promptMetadata[1].style = Some("jazz")
    /\ request[1].decision # None
    /\ request[1].decision[1].vibeLabel = "party"
    /\ request[1].stats.styleIndicator = "party"
    /\ brief[1].style = "jazz"

\* C8: in fresh derivation a chosen style "upbeat" resolves to "electronic"
\* under strobe or dynamic lighting, whichever source chose it, so no fresh
\* brief is "upbeat" under such lighting; every other chosen style, and
\* every other lighting pattern, leaves the chosen style as it is.
StrobeOverride ==
    ResolvedFresh =>
        LET chosen ==
                chosen_style(request[1].stats, request[1].promptMetadata,
                             request[1].decision)
            flashing == request[1].stats.lightingPattern \in {"strobe", "dynamic"}
        IN  /\ (chosen = "upbeat" /\ flashing) => brief[1].style = "electronic"
            /\ flashing => brief[1].style # "upbeat"
            /\ (chosen # "upbeat" \/ ~flashing) => brief[1].style = chosen

\* The indicator alone chose "upbeat" and the lighting is dynamic.
StrobeOverrideWitness ==
    /\ ResolvedFresh
    /\ request[1].promptMetadata = None /\ request[1].decision = None
    /\ request[1].stats.styleIndicator = "party"
    /\ request[1].stats.lightingPattern = "dynamic"
    /\ brief[1].style = "electronic"

\* C9: with no promptMetadata.targetBpm and no decision, the fresh targetBpm
\* is the nearest integer to 78 + clamp(motionLevel, 0, 1) * 60.
BpmRounded ==
    (/\ ResolvedFresh
     /\ request[1].decision = None
     /\ request[1].promptMetadata = None \/ request[1].promptMetadata[1].targetBpm = None)
        => brief[1].targetBpm = Round(motion_bpm(request[1].stats))

\* C10: on the existing-brief path style, vibeLabel, targetBpm, the seven
\* axes, description and transition come back as supplied, and a non-empty
\* weatherSummary, environmentSummary or moodKeywords is kept; the other
\* inputs of the request change none of this.
ExistingFieldsKept ==
    ResolvedExisting =>
        LET b == request[1].brief[1]
        IN  /\ \A f \in Axes \cup {"style", "vibeLabel", "targetBpm", "description",
                                   "transition"} : brief[1][f] = b[f]
            /\ TruthyStr(b.environmentSummary)
                   => brief[1].environmentSummary = b.environmentSummary
            /\ TruthyStr(b.weatherSummary) => brief[1].weatherSummary = b.weatherSummary
            /\ b.moodKeywords # <<>> => brief[1].moodKeywords = b.moodKeywords
            /\ DOMAIN brief[1] = DOMAIN b

\* A brief with summaries of its own, resolved with metadata, weather and
\* stats that would each derive other ones.
ExistingFieldsKeptWitness ==
    /\ ResolvedExisting
    /\ request[1].brief[1].environmentSummary = Some("custom")
    /\ request[1].promptMetadata # None
    /\ request[1].weather # None /\ summarise_weather(request[1].weather) # None
    /\ request[1].stats.lightingPattern = "strobe"
    /\ brief[1].environmentSummary = Some("custom")
    /\ brief[1].weatherSummary = Some("custom")

\* The style the decision label stands for, for the four labels that have one.
StyleOfLabel(label) ==
    CASE label = "party" -> "upbeat"
      [] label = "chill" -> "chill"
      [] label = "focused" -> "ambient"
      [] label = "bored" -> "dynamic"

\* The style the styleIndicator stands for, "chill" for one that has none.
StyleOfIndicator(indicator) ==
    CASE indicator = "party" -> "upbeat"
      [] indicator = "formal" -> "classical"
      [] indicator = "professional" -> "ambient"
      [] indicator = "casual" -> "acoustic"
      [] indicator = "mixed" -> "chill"
      [] OTHER -> "chill"

NoMetadataStyle ==
    request[1].promptMetadata = None \/ request[1].promptMetadata[1].style = None

\* C11: in fresh derivation without a promptMetadata.style, a decision whose
\* vibeLabel is party, chill, focused or bored chooses upbeat, chill, ambient
\* or dynamic; with no decision or another label the styleIndicator chooses
\* (party upbeat, formal classical, professional ambient, casual acoustic,
\* mixed chill), and an unrecognized styleIndicator chooses chill. The brief
\* carries the chosen style after the lighting override.
DecisionThenIndicator ==
    (ResolvedFresh /\ NoMetadataStyle) =>
        LET decision == request[1].decision
            chosen ==
                IF /\ decision # None
                   /\ decision[1].vibeLabel \in {"party", "chill", "focused", "bored"}
                THEN StyleOfLabel(decision[1].vibeLabel)
                ELSE StyleOfIndicator(request[1].stats.styleIndicator)
        IN  brief[1].style = lighting_override(chosen, request[1].stats.lightingPattern)

\* A decision with a label of no style leaves the choice to the indicator.
DecisionThenIndicatorWitness ==
    /\ ResolvedFresh /\ NoMetadataStyle
    /\ request[1].decision # None
    /\ request[1].decision[1].vibeLabel = "weird"
    /\ request[1].stats.styleIndicator = "formal"
    /\ brief[1].style = "classical"

\* The call in hand is the brief of the earlier call fed back with that
\* call's stats and weather.
FedBack ==
    /\ Resolved /\ earlier # None
    /\ request[1] = [earlier[1].request EXCEPT !.brief = Some(earlier[1].brief)]

\* C12: a resolved brief fed back as the existing brief, with the same
\* stats and weather, comes back equal in every field, the order of the
\* instrumentationHints included, whichever path resolved it first and
\* whatever calls came in between.
PassThroughIdempotent == FedBack => brief[1] = earlier[1].brief

\* A freshly derived brief fed back after refinements extended the table
\* entry its hints came from.
PassThroughIdempotentWitness ==
    /\ FedBack
    /\ earlier[1].request.brief = None
    /\ earlier[1].request.promptMetadata = None
    /\ earlier[1].brief.style = "upbeat"
    /\ Len(STYLE_INSTRUMENTS["upbeat"]) = Len(InitialStyleInstruments["upbeat"]) + 4
    /\ brief[1] = earlier[1].brief

\* What the resolver returns for a request it completes, and whether it
\* ends in an exception instead (lines 382-489).
resolution(table, req) ==
    IF req.brief = None THEN fresh_brief(table, req) ELSE existing_brief(table, req)

resolution_raises(req) ==
    IF req.brief = None THEN fresh_raises(req) ELSE existing_raises(req)

\* C13: the weather snapshot is purely textual. A resolution whose inputs
\* differ from those of the resolved call only in the weather returns a
\* brief too, and the two briefs agree in every field but weatherSummary.
WeatherOnlyTextual ==
    Resolved =>
        \A w \in Weathers :
            LET other == [request[1] EXCEPT !.weather = w]
            IN  /\ ~resolution_raises(other)
                /\ \A f \in DOMAIN brief[1] \ {"weatherSummary"} :
                       resolution(InitialStyleInstruments, other)[f] = brief[1][f]

\* C14: the resolver never fails on a well-typed request: whatever fields
\* are present, however far the floats lie out of range and whatever the
\* categorical strings are, no exception ends it.
NeverRaises == raised = None

\* The nine styles that have an instrument list.
Palette ==
    {"upbeat", "electronic", "dynamic", "ambient", "cozy", "acoustic", "jazz", "classical",
     "chill"}

\* C15 as stated: the style of every resolved brief is one of the nine
\* palette styles, whatever promptMetadata.style or the existing brief's
\* style is.
StyleInPalette == Resolved => brief[1].style \in Palette

\* The style the caller supplies, if any: a non-empty promptMetadata.style
\* in fresh derivation, the existing brief's style in refinement.
SuppliedStyle ==
    IF request[1].brief # None THEN Some(request[1].brief[1].style)
    ELSE IF request[1].promptMetadata # None /\ TruthyStr(request[1].promptMetadata[1].style)
         THEN request[1].promptMetadata[1].style
    ELSE None

\* C15 as amended: the style of a resolved brief is one of the nine palette
\* styles whenever the caller supplies no style or supplies a palette style.
DerivedStyleInPalette ==
    (Resolved /\ (SuppliedStyle = None \/ SuppliedStyle[1] \in Palette))
        => brief[1].style \in Palette

\* Nothing names a style: an empty promptMetadata.style, a label and an
\* indicator the tables do not know.
DerivedStyleInPaletteWitness ==
    /\ ResolvedFresh
    /\ request[1].promptMetadata # None
    /\ request[1].promptMetadata[1].style = Some("")
    /\ request[1].decision # None
    /\ request[1].decision[1].vibeLabel = "weird"
    /\ request[1].stats.styleIndicator = "unrecognized"
    /\ brief[1].style = "chill"

\* C16: the fresh targetBpm is promptMetadata.targetBpm whenever that is
\* present, whatever its value; else decision.suggestedBPM whenever a
\* decision is present; else the default computed from the motion level.
BpmOverrideChain ==
    ResolvedFresh =>
        LET pm == request[1].promptMetadata
            decision == request[1].decision
        IN  brief[1].targetBpm =
                IF pm # None /\ pm[1].targetBpm # None THEN pm[1].targetBpm[1]
                ELSE IF decision # None THEN decision[1].suggestedBPM
                ELSE int(motion_bpm(request[1].stats))

\* A promptMetadata.targetBpm of 0 against a decision that suggests 84.
BpmOverrideChainWitness ==
    /\ ResolvedFresh
    /\ request[1].promptMetadata # None
    /\ request[1].promptMetadata[1].targetBpm = Some(0)
    /\ request[1].decision # None
    /\ request[1].decision[1].suggestedBPM = 84
    /\ brief[1].targetBpm = 0

\* The sensor default of an axis (lines 404-419).
AxisDefault(axis, stats, vibe) ==
    CASE axis = "energy" -> energy_default(stats)
      [] axis = "warmth" -> warmth_default(stats)
      [] axis = "formality" -> formality_default(stats, vibe)
      [] axis = "focus" -> focus_default(stats, vibe)
      [] axis = "acousticRatio" -> acoustic_ratio_default(stats)
      [] axis = "percussionIntensity" -> percussion_intensity_default(stats, vibe)
      [] axis = "dynamics" -> dynamics_default(stats, vibe)

\* C17: in fresh derivation each axis is the promptMetadata field of that
\* axis clamped to [0,1] when that field is present (0 stays 0, a value
\* above 1 becomes 1, one below 0 becomes 0) and its sensor default
\* otherwise; as the default reads no promptMetadata axis, an override of
\* one axis changes no other.
AxisOverrides ==
    ResolvedFresh =>
        \A a \in Axes :
            LET candidate == PmAxis(request[1].promptMetadata, a)
            IN  IF candidate # None
                THEN brief[1][a] =
                         (IF candidate[1] > One THEN One
                          ELSE IF candidate[1] < 0 THEN 0 ELSE candidate[1])
                ELSE brief[1][a] =
                         AxisDefault(a, request[1].stats,
                                     vibe_label(request[1].promptMetadata,
                                                request[1].decision))

\* Energy overridden with 0 and warmth with -0.3 while the other axes keep
\* defaults above 0.
AxisOverridesWitness ==
    /\ ResolvedFresh
    /\ request[1].promptMetadata # None
    /\ request[1].promptMetadata[1].energy = Some(0)
    /\ request[1].promptMetadata[1].warmth = Some(F(0 - 30))
    /\ request[1].promptMetadata[1].focus = None
    /\ energy_default(request[1].stats) > 0
    /\ brief[1].energy = 0
    /\ brief[1].warmth = 0
    /\ brief[1].focus > 0

\* The list the fresh hints start from, as the source text gives it: the
\* promptMetadata hints if there are any, else the canonical instruments of
\* the style in table order, else one hint that names the style.
HintSource ==
    LET pm == request[1].promptMetadata
    IN  IF pm # None /\ TruthyList(pm[1].instrumentationHints)
        THEN pm[1].instrumentationHints[1]
        ELSE IF brief[1].style \in DOMAIN InitialStyleInstruments
             THEN InitialStyleInstruments[brief[1].style]
        ELSE <<"elements inspired by " \o brief[1].style>>

\* C18: the fresh instrumentationHints are that source list with later
\* repeats dropped, followed by "no vocals" and then by "instrumental
\* arrangement" for whichever of the two the source lacks, whatever calls
\* came before.
FreshHintsFromSource ==
    ResolvedFresh =>
        brief[1].instrumentationHints =
            Dedup(HintSource)
            \o (IF Contains(HintSource, "no vocals") THEN <<>> ELSE <<"no vocals">>)
            \o (IF Contains(HintSource, "instrumental arrangement") THEN <<>>
                ELSE <<"instrumental arrangement">>)

\* The elements of a list.
Elements(xs) == {xs[i] : i \in 1..Len(xs)}

\* The last call was generate_music with a style of the advertised enum.
CalledWithEnumStyle ==
    /\ toolResult # None
    /\ toolResult[1].name = "generate_music"
    /\ toolResult[1].arguments.style # None
    /\ \E tool \in Elements(handle_list_tools) :
           toolResult[1].arguments.style[1] \in Elements(tool.inputSchema.style)

\* C19: the server lists a tool generate_music, and a call of it with a
\* style of its enum raises nothing and returns a non-empty content list
\* whose first text is a JSON object with status "success" or "error", a
\* message and a music_file; without an API key the status is "success" and
\* music_file is null.
ToolContract ==
    /\ \E tool \in Elements(handle_list_tools) : tool.name = "generate_music"
    /\ CalledWithEnumStyle =>
           /\ toolResult[1].raised = None
           /\ toolResult[1].content # None
           /\ Len(toolResult[1].content[1]) >= 1
           /\ JsonLoads(toolResult[1].content[1][1].text) # None
           /\ LET payload == JsonLoads(toolResult[1].content[1][1].text)[1]
              IN  /\ {"status", "message", "music_file"} \subseteq DOMAIN payload
                  /\ payload.status \in {"success", "error"}
                  /\ elevenlabs_api_key = None
                         => payload.status = "success" /\ payload.music_file = None

\* Style "rock" with no key, no description and no duration.
ToolContractWitness ==
    /\ CalledWithEnumStyle
    /\ elevenlabs_api_key = None
    /\ toolResult[1].arguments.style = Some("rock")
    /\ toolResult[1].arguments.description = None
    /\ toolResult[1].arguments.duration_seconds = None
    /\ JsonLoads(toolResult[1].content[1][1].text)[1].status = "success"
    /\ JsonLoads(toolResult[1].content[1][1].text)[1].duration_seconds = 60

\* The last run met one of the failures: no API key, a failed HTTP call, a
\* response other than 200, an empty audio payload.
CliFailure ==
    \/ ~TruthyStr(ELEVENLABS_API_KEY)
    \/ cli[1].http.failed
    \/ cli[1].http.status # 200
    \/ cli[1].http.body = ""

\* C20: the client reports every failure as ElevenLabsAPIError and writes no
\* file then, a missing key before any request is posted; the command line
\* returns 1 on every failure and 0 only after a file was written.
FailuresReported ==
    cli # None =>
        /\ CliFailure =>
               /\ cli[1].call.raised = Some("ElevenLabsAPIError")
               /\ cli[1].call.written = None
               /\ cli[1].returned = Some(1)
        /\ ~TruthyStr(ELEVENLABS_API_KEY) => cli[1].call.posted = None
        /\ cli[1].returned = Some(0) =>
               /\ cli[1].call.written # None
               /\ cli[1].call.written[1] \in files

\* duration_seconds * 1000 brought into [10000, 300000].
ClampedMs(duration_seconds) ==
    IF duration_seconds * 1000 < 10000 THEN 10000
    ELSE IF duration_seconds * 1000 > 300000 THEN 300000
    ELSE duration_seconds * 1000

\* C21: the music_length_ms the client posts is duration_seconds * 1000
\* clamped to [10000, 300000], and the duration_seconds it returns on
\* success is that value divided by 1000.
DurationClamped ==
    cli # None =>
        LET ms == ClampedMs(cli[1].duration)
        IN  /\ cli[1].call.posted # None => cli[1].call.posted[1].music_length_ms = ms
            /\ cli[1].call.result # None =>
                   cli[1].call.result[1].duration_seconds =
                       (ms \div 1000) * Scale + (ms % 1000) * (Scale \div 1000)

\* 400 seconds asked for, 300 posted and returned.
DurationClampedWitness ==
    /\ cli # None
    /\ cli[1].duration = 400
    /\ cli[1].returned = Some(0)
    /\ cli[1].call.posted[1].music_length_ms = 300000
    /\ cli[1].call.result[1].duration_seconds = 300 * Scale

(***************************************************************************)
(* The weather tool, mcp_weather_server.py, and the scripts that repeat    *)
(* its bucket logic and its table.                                         *)
(*                                                                         *)
(* The current-weather payload of OpenWeather is a function whose DOMAIN   *)
(* is the set of keys the JSON object carries; times are whole seconds,    *)
(* the wind speed is a float in m/s and a JSON null is None.               *)
(***************************************************************************)

\* mcp_weather_server.py, lines 24-93.
WEATHER_CONDITION_TO_BUCKET ==
    [id \in {800} |-> "sunny"]
    @@ [id \in {801, 802, 803, 804} |-> "cloudy"]
    @@ [id \in {500, 501, 502, 503, 504, 511, 520, 521, 522, 531} |-> "rainy"]
    @@ [id \in {300, 301, 302, 310, 311, 312, 313, 314, 321} |-> "rainy"]
    @@ [id \in {200, 201, 202, 210, 211, 212, 221, 230, 231, 232} |-> "rainy"]
    @@ [id \in {600, 601, 602, 611, 612, 613, 615, 616, 620, 621, 622} |-> "cloudy"]
    @@ [id \in {701, 711, 721, 741, 762} |-> "cloudy"]
    @@ [id \in {731, 751, 761, 771, 781} |-> "windy"]

\* demo_weather_buckets.py, lines 10-19, under the comment "Same mapping as
\* our MCP server".
demo_WEATHER_CONDITION_TO_BUCKET ==
    (800 :> "sunny") @@ (801 :> "cloudy") @@ (500 :> "rainy") @@ (200 :> "rainy")
    @@ (600 :> "cloudy") @@ (701 :> "cloudy") @@ (781 :> "windy")

\* simple_weather_test.py, lines 16-37, under the comment "same as in MCP
\* server".
simple_WEATHER_CONDITION_TO_BUCKET ==
    [id \in {800} |-> "sunny"]
    @@ [id \in {801, 802, 803, 804} |-> "cloudy"]
    @@ [id \in {500, 501, 502, 503, 504, 511, 520, 521, 522, 531} |-> "rainy"]
    @@ [id \in {300, 301, 302, 310, 311, 312, 313, 314, 321} |-> "rainy"]
    @@ [id \in {200, 201, 202, 210, 211, 212, 221, 230, 231, 232} |-> "rainy"]
    @@ [id \in {600, 601, 602, 611, 612, 613, 615, 616, 620, 621, 622} |-> "cloudy"]
    @@ [id \in {701, 711, 721, 741, 762} |-> "cloudy"]
    @@ [id \in {731, 751, 761, 771, 781} |-> "windy"]

\* working_weather_agent.py, lines 30-43, under the comment "same as our MCP
\* server".
working_WEATHER_CONDITION_TO_BUCKET ==
    [id \in {800} |-> "sunny"]
    @@ [id \in {801, 802, 803, 804} |-> "cloudy"]
    @@ [id \in {500, 501, 502, 503, 504, 511, 520, 521, 522, 531} |-> "rainy"]
    @@ [id \in {300, 301, 302, 310, 311, 312, 313, 314, 321} |-> "rainy"]
    @@ [id \in {200, 201, 202, 210, 211, 212, 221, 230, 231, 232} |-> "rainy"]
    @@ [id \in {600, 601, 602, 611, 612, 613, 615, 616, 620, 621, 622} |-> "cloudy"]
    @@ [id \in {701, 711, 721, 741, 762} |-> "cloudy"]
    @@ [id \in {731, 751, 761, 771, 781} |-> "windy"]

\* live_weather_test.py, lines 11-24, under the comment "Same mapping as our
\* MCP server".
live_WEATHER_CONDITION_TO_BUCKET ==
    [id \in {800} |-> "sunny"]
    @@ [id \in {801, 802, 803, 804} |-> "cloudy"]
    @@ [id \in {500, 501, 502, 503, 504, 511, 520, 521, 522, 531} |-> "rainy"]
    @@ [id \in {300, 301, 302, 310, 311, 312, 313, 314, 321} |-> "rainy"]
    @@ [id \in {200, 201, 202, 210, 211, 212, 221, 230, 231, 232} |-> "rainy"]
    @@ [id \in {600, 601, 602, 611, 612, 613, 615, 616, 620, 621, 622} |-> "cloudy"]
    @@ [id \in {701, 711, 721, 741, 762} |-> "cloudy"]
    @@ [id \in {731, 751, 761, 771, 781} |-> "windy"]

\* mock_mcp_test.py, lines 43-45.
condition_map == (800 :> "sunny") @@ (801 :> "cloudy") @@ (500 :> "rainy") @@ (781 :> "windy")

\* Whether lines 184-189 of the server raise on the payload: a key they
\* subscript is missing (KeyError), the "weather" list is empty (IndexError)
\* or a time is null (TypeError).
payload_raises(data) ==
    \/ "weather" \notin DOMAIN data
    \/ Len(data.weather) = 0
    \/ "id" \notin DOMAIN data.weather[1]
    \/ "dt" \notin DOMAIN data
    \/ "sys" \notin DOMAIN data
    \/ "sunrise" \notin DOMAIN data.sys
    \/ "sunset" \notin DOMAIN data.sys
    \/ data.dt = None \/ data.sys.sunrise = None \/ data.sys.sunset = None

\* Line 191: the time lies before sunrise or after sunset.
is_night(data) ==
    data.dt[1] < data.sys.sunrise[1] \/ data.dt[1] > data.sys.sunset[1]

\* Line 195: data.get("wind", {}).get("speed", 0).
wind_speed_of(data) ==
    IF "wind" \in DOMAIN data /\ "speed" \in DOMAIN data.wind
    THEN data.wind.speed ELSE Some(0)

\* Variant of the server's bucket logic that looks at the wind first.
fetch_weather_bucket_wind_first(api_key, http) ==
    IF ~TruthyStr(api_key) THEN "sunny"
    ELSE IF http.failed \/ http.status # 200 \/ http.parsed = None THEN "cloudy"
    ELSE LET data == http.parsed[1]
         IN  IF payload_raises(data) \/ wind_speed_of(data) = None THEN "cloudy"
             ELSE IF wind_speed_of(data)[1] > 10 * Scale THEN "windy"
             ELSE IF is_night(data) THEN "night"
             ELSE DictGet(WEATHER_CONDITION_TO_BUCKET, data.weather[1].id, "cloudy")

\* Variant of the server's bucket logic that answers an unknown condition
\* id with its own name.
fetch_weather_bucket_no_default(api_key, http) ==
    IF ~TruthyStr(api_key) THEN "sunny"
    ELSE IF http.failed \/ http.status # 200 \/ http.parsed = None THEN "cloudy"
    ELSE LET data == http.parsed[1]
         IN  IF payload_raises(data) THEN "cloudy"
             ELSE IF is_night(data) THEN "night"
             ELSE IF wind_speed_of(data) = None THEN "cloudy"
             ELSE IF wind_speed_of(data)[1] > 10 * Scale THEN "windy"
             ELSE DictGet(WEATHER_CONDITION_TO_BUCKET, data.weather[1].id, "unknown")

\* _fetch_weather_bucket (lines 161-205). A failed request, a body that is
\* not JSON and a payload the subscripts raise on all end in the except
\* clause of line 203; so does the comparison of a null wind speed.
fetch_weather_bucket(api_key, http) ==
    IF ~TruthyStr(api_key) THEN "sunny"
    ELSE IF http.failed THEN "cloudy"
    ELSE IF http.status # 200 THEN "cloudy"
    ELSE IF http.parsed = None THEN "cloudy"
    ELSE LET data == http.parsed[1]
         IN  IF payload_raises(data) THEN "cloudy"
             ELSE IF is_night(data) THEN "night"
             ELSE IF wind_speed_of(data) = None THEN "cloudy"
             ELSE IF wind_speed_of(data)[1] > 10 * Scale THEN "windy"
             ELSE DictGet(WEATHER_CONDITION_TO_BUCKET, data.weather[1].id, "cloudy")

\* _get_weather (lines 134-159). _fetch_weather_bucket catches what it
\* raises, so the except clause of line 153 is not entered.
get_weather(api_key, arguments, http) ==
    IF ~TruthyStr(arguments.city)
    THEN [content |-> <<TextContent([plain |-> "City parameter is required"])>>,
          isError |-> TRUE]
    ELSE [content |-> <<TextContent(JsonDumps(
                          [bucket |-> fetch_weather_bucket(api_key, http)]))>>,
          isError |-> FALSE]

\* call_tool (lines 127-132): the result, or the exception for another name.
call_tool(api_key, name, arguments, http) ==
    IF name = "get_weather"
    THEN [result |-> Some(get_weather(api_key, arguments, http)), raised |-> None]
    ELSE [result |-> None, raised |-> Some("ValueError")]

\* dict.get(weather_id, "cloudy") on a copy of the table.
table_bucket(table, weather_id) == DictGet(table, weather_id, "cloudy")

\* The copies of the table that a comment declares to be the server's
\* mapping, by the script that holds them.
TableCopies ==
    [demo_weather_buckets |-> demo_WEATHER_CONDITION_TO_BUCKET,
     simple_weather_test |-> simple_WEATHER_CONDITION_TO_BUCKET,
     working_weather_agent |-> working_WEATHER_CONDITION_TO_BUCKET,
     live_weather_test |-> live_WEATHER_CONDITION_TO_BUCKET]

\* demo_weather_buckets.py, lines 80-86.
demo_bucket(scenario) ==
    IF scenario.time_of_day = "night" THEN "night"
    ELSE IF scenario.wind_speed > 10 * Scale THEN "windy"
    ELSE table_bucket(demo_WEATHER_CONDITION_TO_BUCKET, scenario.weather_id)

\* mock_mcp_test.py, lines 37-46.
mock_bucket(data) ==
    IF data.time = "night" THEN "night"
    ELSE IF data.wind > 10 * Scale THEN "windy"
    ELSE DictGet(condition_map, data.condition, "cloudy")

\* The five buckets the tool's description names (line 113).
WeatherBuckets == {"sunny", "cloudy", "rainy", "windy", "night"}

\* The condition ids OpenWeather documents, and one it does not.
ConditionIds == DOMAIN WEATHER_CONDITION_TO_BUCKET \cup {999}

\* A current-weather payload with every key the server reads; the sun rises
\* at 6 and sets at 18.
Payload(weather_id, dt, wind) ==
    [weather |-> <<[id |-> weather_id]>>, dt |-> Some(dt),
     sys |-> [sunrise |-> Some(6), sunset |-> Some(18)], wind |-> wind]

\* The "wind" objects: calm, exactly 10 m/s, just above it, a storm, no
\* speed at all, a null speed.
Winds ==
    {[speed |-> Some(F(320))], [speed |-> Some(10 * Scale)], [speed |-> Some(10 * Scale + 1)],
     [speed |-> Some(25 * Scale)], [gust |-> Some(F(320))], [speed |-> None]}

\* Payloads that lack something the server subscripts.
BrokenPayloads ==
    {[dt |-> Some(12), sys |-> [sunrise |-> Some(6), sunset |-> Some(18)]],
     [weather |-> <<>>, dt |-> Some(12), sys |-> [sunrise |-> Some(6), sunset |-> Some(18)]],
     [weather |-> <<[id |-> 800]>>, dt |-> Some(23), sys |-> [sunrise |-> Some(6)]],
     [weather |-> <<[id |-> 800]>>, dt |-> None,
      sys |-> [sunrise |-> Some(6), sunset |-> Some(18)]]}

\* A payload without a "wind" key.
Windless(data) == [k \in DOMAIN data \ {"wind"} |-> data[k]]

WeatherPayloads ==
    {Payload(id, 12, [speed |-> Some(F(320))]) : id \in ConditionIds}
    \cup {Payload(id, dt, wind) : id \in {800, 500, 781, 999}, dt \in {5, 6, 12, 18, 19},
                                  wind \in Winds}
    \cup {Windless(Payload(id, dt, <<>>)) : id \in {800, 781}, dt \in {5, 12}}
    \cup BrokenPayloads

WeatherHttp(failed, status, parsed) ==
    [failed |-> failed, status |-> status, parsed |-> parsed]

\* What the request to OpenWeather ends in: no connection, a refusal, a body
\* that is not JSON, a payload.
WeatherHttpOutcomes ==
    {WeatherHttp(TRUE, 0, None), WeatherHttp(FALSE, 401, None),
     WeatherHttp(FALSE, 404, Some(Payload(800, 12, [speed |-> Some(0)]))),
     WeatherHttp(FALSE, 200, None)}
    \cup {WeatherHttp(FALSE, 200, Some(data)) : data \in WeatherPayloads}

WeatherArguments == {[city |-> None], [city |-> Some("")], [city |-> Some("London")]}

\* The scenarios of the demonstration scripts, and others of their shape.
Scenarios ==
    {[weather_id |-> id, wind_speed |-> wind, time_of_day |-> time] :
        id \in {800, 801, 500, 501, 781, 731, 999},
        wind \in {F(320), 10 * Scale, 10 * Scale + 1, 25 * Scale},
        time \in {"day", "night"}}

\* The weather server is started with the key its environment holds.
InitWeather ==
    /\ ResolverNotStarted
    /\ MusicNotStarted
    /\ EndpointNotStarted
    /\ OPENWEATHER_API_KEY \in Keys
    /\ weatherResult = None
    /\ lookup = None
    /\ mcp_tools = None
    /\ weatherResponse = None


\* A tools/call request to the weather server is handled (lines 127-159).
\* The server runs on its own, not beside the scripts.
CallWeatherTool(name, arguments, http) ==
    /\ lookup = None
    /\ weatherResult' =
           Some([name |-> name, arguments |-> arguments, http |-> http] @@
                call_tool(OPENWEATHER_API_KEY, name, arguments, http))
    /\ UNCHANGED <<resolver, music, OPENWEATHER_API_KEY, lookup, mcp_tools, weatherResponse,
                   endpoint_state>>

GetWeather ==
    \E arguments \in WeatherArguments, http \in WeatherHttpOutcomes :
        CallWeatherTool("get_weather", arguments, http)

CallOtherWeatherTool ==
    \E arguments \in WeatherArguments :
        CallWeatherTool("get_forecast", arguments, WeatherHttp(TRUE, 0, None))

\* A script has bucketed something: lookup holds what and how.
Bucketed(script, step, input, bucket) ==
    /\ weatherResult = None
    /\ lookup' = Some([script |-> script, step |-> step, input |-> input, bucket |-> bucket])
    /\ UNCHANGED <<resolver, music, OPENWEATHER_API_KEY, weatherResult, mcp_tools,
                   weatherResponse, endpoint_state>>

\* demo_weather_buckets.py buckets one scenario (lines 80-86).
SimulateScenario ==
    \E scenario \in Scenarios :
        Bucketed("demo_weather_buckets", "scenario", scenario, demo_bucket(scenario))

\* mock_mcp_test.py buckets the data of one city (lines 37-46).
MockScenario ==
    \E scenario \in Scenarios :
        LET data == [condition |-> scenario.weather_id, wind |-> scenario.wind_speed,
                     time |-> scenario.time_of_day]
        IN  Bucketed("mock_mcp_test", "scenario", data, mock_bucket(data))

\* A script looks a condition id up in its copy of the table
\* (demo_weather_buckets.py line 86, simple_weather_test.py lines 74 and 126,
\* working_weather_agent.py line 106, live_weather_test.py line 64).
LookUp ==
    \E script \in DOMAIN TableCopies, weather_id \in ConditionIds :
        Bucketed(script, "table", weather_id, table_bucket(TableCopies[script], weather_id))

NextWeather ==
    GetWeather \/ CallOtherWeatherTool \/ SimulateScenario \/ MockScenario \/ LookUp

SpecWeather == InitWeather /\ [][NextWeather]_vars

\* C22: every successful result of the get_weather tool carries a bucket
\* that is one of sunny, cloudy, rainy, windy and night, whatever the call
\* ended in: "sunny" without an API key, "cloudy" after a status other than
\* 200 and after an exception while fetching or parsing, and one of the five
\* for every payload, by night, in wind, for a known and for an unknown
\* condition id.
SuccessfulWeatherResult ==
    /\ weatherResult # None
    /\ weatherResult[1].result # None
    /\ ~weatherResult[1].result[1].isError

CarriedBucket == JsonLoads(weatherResult[1].result[1].content[1].text)

BucketCarried ==
    SuccessfulWeatherResult =>
        LET http == weatherResult[1].http
        IN  /\ Len(weatherResult[1].result[1].content) = 1
            /\ CarriedBucket # None
            /\ DOMAIN CarriedBucket[1] = {"bucket"}
            /\ CarriedBucket[1].bucket \in WeatherBuckets
            /\ ~TruthyStr(OPENWEATHER_API_KEY) => CarriedBucket[1].bucket = "sunny"
            /\ (TruthyStr(OPENWEATHER_API_KEY)
                /\ (http.failed \/ http.status # 200 \/ http.parsed = None
                    \/ http.parsed[1] \in BrokenPayloads))
               => CarriedBucket[1].bucket = "cloudy"

\* An unknown condition id on a calm day was answered with "cloudy".
BucketCarriedWitness ==
    /\ SuccessfulWeatherResult
    /\ TruthyStr(OPENWEATHER_API_KEY)
    /\ weatherResult[1].http = WeatherHttp(FALSE, 200, Some(Payload(999, 12, [speed |-> Some(F(320))])))
    /\ CarriedBucket = Some([bucket |-> "cloudy"])


\* C23: the bucket follows a fixed order of priority. Night, a time before
\* sunrise or after sunset, wins whatever the wind and the condition id;
\* else a wind speed above 10 m/s gives "windy", and exactly 10 does not
\* count; else the table gives the bucket, "cloudy" for an id it does not
\* hold. The demonstration scripts follow the same order over their own
\* tables.
WellFormedWeather ==
    /\ SuccessfulWeatherResult
    /\ TruthyStr(OPENWEATHER_API_KEY)
    /\ ~weatherResult[1].http.failed
    /\ weatherResult[1].http.status = 200
    /\ weatherResult[1].http.parsed # None
    /\ weatherResult[1].http.parsed[1] \notin BrokenPayloads

\* The bucket the order of priority gives.
Prioritised(night, wind_speed, weather_id, table) ==
    IF night THEN "night"
    ELSE IF wind_speed > 10 * Scale THEN "windy"
    ELSE IF weather_id \in DOMAIN table THEN table[weather_id]
    ELSE "cloudy"

TableCopiesAgree ==
    (lookup # None /\ lookup[1].step = "table") =>
        lookup[1].bucket = table_bucket(WEATHER_CONDITION_TO_BUCKET, lookup[1].input)


\* C25: a generate_music call whose style is missing, empty or not one of the
\* supported styles is answered with the "Invalid style" text and nothing
\* else happens: no request is sent to ElevenLabs and no file is written,
\* whatever the key and the endpoint; a call of a tool with another name
\* raises the unknown-tool error and generates nothing.
Unsupported(arguments) ==
    \/ arguments.style = None
    \/ arguments.style[1] = ""
    \/ arguments.style[1] \notin
           {"upbeat", "chill", "cozy", "dynamic", "ambient", "classical", "rock", "jazz",
            "electronic", "acoustic"}

InvalidStyleText ==
    "Invalid style. Must be one of: upbeat, chill, cozy, dynamic, ambient, classical, rock, jazz, electronic, acoustic"

Rejected ==
    /\ toolResult' # None
    /\ \/ toolResult'[1].name # "generate_music"
       \/ Unsupported(toolResult'[1].arguments)

RejectedStep ==
    Rejected =>
        /\ ~toolResult'[1].posted
        /\ files' = files
        /\ file_stat' = file_stat
        /\ IF toolResult'[1].name = "generate_music"
           THEN /\ toolResult'[1].raised = None
                /\ toolResult'[1].content = Some(<<TextContent([plain |-> InvalidStyleText])>>)
           ELSE /\ toolResult'[1].raised = Some("ValueError")
                /\ toolResult'[1].content = None

RejectedBeforeAnything == [][RejectedStep]_vars

\* A call for "polka" was turned away by a server that holds a key.
RejectedBeforeAnythingWitness ==
    /\ toolResult # None
    /\ toolResult[1].name = "generate_music"
    /\ toolResult[1].arguments.style = Some("polka")
    /\ TruthyStr(elevenlabs_api_key)
    /\ toolResult[1].content = Some(<<TextContent([plain |-> InvalidStyleText])>>)
    /\ files = {}


(***************************************************************************)
(* A caller of generate_music that keeps what its successful calls          *)
(* returned.                                                               *)
(***************************************************************************)

MaxCalls == 2

\* The calls of that caller: two styles, and an endpoint that answers with
\* one of two recordings or refuses.
KeptArguments ==
    {[style |-> Some(style), description |-> None, duration_seconds |-> None] :
        style \in {"chill", "rock"}}

KeptOutcomes ==
    {http \in HttpOutcomes :
        /\ ~http.failed
        /\ http.contentType \in {Some("audio/mpeg"), Some("audio/wav"), Some("text/html")}}

\* The file a tool result names, if it names one.
music_file_of(result) ==
    IF result.content = None THEN None
    ELSE LET loaded == JsonLoads(result.content[1][1].text)
         IN  IF loaded = None THEN None ELSE loaded[1].music_file

\* One generate_music call; the caller notes the file a successful call
\* returned and the audio the endpoint had sent for it.
KeptCall(arguments, http) ==
    /\ Len(generated) < MaxCalls
    /\ ServerCall("generate_music", arguments, http, "ok")
    /\ generated' =
           IF music_file_of(toolResult'[1]) # None
           THEN Append(generated,
                       [music_file |-> music_file_of(toolResult'[1])[1], audio |-> http.body])
           ELSE generated

GenerateAndKeep ==
    \E arguments \in KeptArguments, http \in KeptOutcomes : KeptCall(arguments, http)

InitGenerate ==
    /\ InitServer
    /\ TruthyStr(elevenlabs_api_key)

NextGenerate == GenerateAndKeep \/ Tick

SpecGenerate == InitGenerate /\ [][NextGenerate]_vars

\* C30: distinct successful generate_music calls return distinct music_file
\* paths, and the audio of each is still in its file after the later calls,
\* also when two calls for the same style complete within one second.
DistinctMusicFiles ==
    /\ \A i, j \in 1..Len(generated) :
           i # j => generated[i].music_file # generated[j].music_file
    /\ \A i \in 1..Len(generated) :
           <<generated[i].music_file, generated[i].audio>> \in files


(***************************************************************************)
(* GET /weather of agno_weather_agent.py.                                  *)
(*                                                                         *)
(* The agent's reply is a list of words, followed or not by a brace group  *)
(* that holds the word "bucket" in quotes: what the regular expression of  *)
(* line 165 finds. The brace group is a JSON object or is not JSON.        *)
(***************************************************************************)

\* str.lower() on the words of the replies.
LowerWord(word) ==
    CASE word = "Sunny" -> "sunny"
      [] word = "Cloudy" -> "cloudy"
      [] word = "Tonight" -> "tonight"
      [] OTHER -> word

\* potential_bucket in word, for a lower-cased word.
InWord(potential_bucket, word) ==
    \/ word = potential_bucket
    \/ word = "tonight" /\ potential_bucket = "night"
    \/ word = "unsunny" /\ potential_bucket = "sunny"

\* The strings a brace group shows in the reply text.
group_words(group) ==
    IF group = None THEN <<>>
    ELSE IF ~group[1].json THEN <<"bucket", group[1].raw>>
    ELSE IF "bucket" \in DOMAIN group[1].object
         THEN <<"bucket">> \o (IF group[1].object.bucket = None THEN <<"null">>
                               ELSE <<group[1].object.bucket[1]>>)
         ELSE <<"kind", "bucket">>

\* Line 156: potential_bucket in response_text.lower().
in_lower(potential_bucket, reply) ==
    LET text == reply.words \o group_words(reply.group)
    IN  \E i \in 1..Len(text) : InWord(potential_bucket, LowerWord(text[i]))

\* Lines 154-158: the first of the five names, in the order of the list, that
\* the lower-cased reply holds.
named_bucket(reply) ==
    LET order == <<"sunny", "cloudy", "rainy", "windy", "night">>
        found == {i \in 1..Len(order) : in_lower(order[i], reply)}
    IN  IF found = {} THEN None
        ELSE Some(order[CHOOSE i \in found : \A j \in found : i <= j])

\* Variant of lines 154-170 that falls back to "cloudy" whenever the loop
\* found no name.
extracted_bucket_defaulted(reply) ==
    IF named_bucket(reply) # None THEN named_bucket(reply) ELSE Some("cloudy")

\* Lines 154-170: bucket as it reaches WeatherResponse. The default "cloudy"
\* is assigned when json.loads raises and when the object has no "bucket"
\* key; without a brace group the bucket remains None, and a "bucket" of the
\* object is taken as it is.
extracted_bucket(reply) ==
    IF named_bucket(reply) # None THEN named_bucket(reply)
    ELSE IF reply.group = None THEN None
    ELSE IF ~reply.group[1].json THEN Some("cloudy")
    ELSE IF "bucket" \in DOMAIN reply.group[1].object THEN reply.group[1].object.bucket
    ELSE Some("cloudy")

\* get_weather (lines 129-180). run is how agent.arun ended: it raised, or it
\* returned a response whose content is a text or None. A bucket of None
\* fails the validation of WeatherResponse (bucket: str), and like every
\* other exception of lines 143-176 becomes the 500 of line 180.
agno_get_weather(tools, city, run) ==
    IF tools = None
    THEN [status |-> 503, body |-> None, ran |-> FALSE]
    ELSE IF run.raised \/ run.content = None
         THEN [status |-> 500, body |-> None, ran |-> TRUE]
    ELSE IF extracted_bucket(run.content[1]) = None
         THEN [status |-> 500, body |-> None, ran |-> TRUE]
    ELSE [status |-> 200,
          body |-> Some([city |-> city, bucket |-> extracted_bucket(run.content[1])[1],
                         message |-> run.content[1]]),
          ran |-> TRUE]

Reply(words, group) == [words |-> words, group |-> group]

AgentReplies ==
    {Reply(words, group) :
        words \in {<<>>, <<"The", "weather", "bucket", "for", "London", "is", "cloudy">>,
                   <<"Sunny", "and", "windy">>, <<"rainy", "then", "sunny">>,
                   <<"clear", "Tonight">>, <<"snowy">>,
                   <<"Sorry", "no", "weather", "data">>},
        group \in {None, Some([json |-> TRUE, object |-> [bucket |-> Some("snowy")]]),
                   Some([json |-> TRUE, object |-> [bucket |-> Some("rainy")]]),
                   Some([json |-> TRUE, object |-> [bucket |-> None]]),
                   Some([json |-> TRUE, object |-> [kind |-> Some("bucket")]]),
                   Some([json |-> FALSE, raw |-> "snowy"])}}

AgentRuns ==
    {[raised |-> TRUE, content |-> None], [raised |-> FALSE, content |-> None]}
    \cup {[raised |-> FALSE, content |-> Some(reply)] : reply \in AgentReplies}

\* The application before its lifespan has started.
InitAgno ==
    /\ ResolverNotStarted
    /\ MusicNotStarted
    /\ EndpointNotStarted
    /\ WeatherNotStarted

\* lifespan (lines 30-51): the MCP tools are connected and the application
\* starts to serve.
Connect ==
    /\ mcp_tools = None
    /\ mcp_tools' = Some("python mcp_weather_server.py")
    /\ UNCHANGED <<resolver, music, OPENWEATHER_API_KEY, weatherResult, lookup,
                   weatherResponse, endpoint_state>>

\* One GET /weather.
AnswerWeather ==
    \E city \in {"London", "Tokyo"}, run \in AgentRuns :
        /\ weatherResponse' =
               Some([city |-> city, connected |-> mcp_tools # None, run |-> run]
                    @@ agno_get_weather(mcp_tools, city, run))
        /\ UNCHANGED <<resolver, music, OPENWEATHER_API_KEY, weatherResult, lookup, mcp_tools,
                       endpoint_state>>

NextAgno == Connect \/ AnswerWeather

SpecAgno == InitAgno /\ [][NextAgno]_vars

\* C29: GET /weather answers every completed run of the agent with a
\* WeatherResponse whose bucket is one of the five: the first of sunny,
\* cloudy, rainy, windy, night that the reply names, "cloudy" when it names
\* none; while the MCP tools are not connected it answers 503 and does not
\* run the agent.
Names(potential_bucket, reply) ==
    \E i \in 1..Len(reply.words \o group_words(reply.group)) :
        InWord(potential_bucket, LowerWord((reply.words \o group_words(reply.group))[i]))

FirstNamed(reply) ==
    IF Names("sunny", reply) THEN "sunny"
    ELSE IF Names("cloudy", reply) THEN "cloudy"
    ELSE IF Names("rainy", reply) THEN "rainy"
    ELSE IF Names("windy", reply) THEN "windy"
    ELSE IF Names("night", reply) THEN "night"
    ELSE "cloudy"

WeatherAnswered ==
    weatherResponse # None =>
        IF ~weatherResponse[1].connected
        THEN weatherResponse[1].status = 503 /\ ~weatherResponse[1].ran
        ELSE (~weatherResponse[1].run.raised /\ weatherResponse[1].run.content # None) =>
                 /\ weatherResponse[1].status = 200
                 /\ weatherResponse[1].body # None
                 /\ weatherResponse[1].body[1].city = weatherResponse[1].city
                 /\ weatherResponse[1].body[1].bucket \in WeatherBuckets
                 /\ weatherResponse[1].body[1].bucket =
                        FirstNamed(weatherResponse[1].run.content[1])


(***************************************************************************)
(* The generation stages of POST /api/vibe/generate-music, lines 489-715   *)
(* of elevenlabs_agentos.py.                                               *)
(*                                                                         *)
(* The handler is a coroutine: what it does between two awaits is one      *)
(* step. It awaits the agent run (line 581) and, inside the direct call,   *)
(* the answer of ElevenLabs. While it waits, the MCP server the agent      *)
(* drives and the handlers of other requests run. Of the prompt only the   *)
(* brief's description is kept.                                            *)
(***************************************************************************)

\* The requests in flight.
Handlers == {"a", "b"}

\* os.path.isfile, os.listdir and os.path.getmtime on the music directory.
isfile(stat, path) == path \in DOMAIN stat

\* Lines 574-578: the files the directory held when the run started.
existing_files_of(stat) == DOMAIN stat

\* Lines 603-613: the path the agent's reply hints at; a relative one is
\* mapped into the music directory.
hinted_path_of(hint) ==
    IF hint = None \/ hint[1] = "" THEN None
    ELSE IF hint[1] = "track.mp3" THEN Some("/tmp/elevenlabs_music/track.mp3")
    ELSE hint

\* Lines 620-635: the files the scan does not skip and that are not older
\* than the start of the run.
scan_candidates(stat, existing_files, start_time) ==
    {path \in DOMAIN stat :
        /\ ~(path \in existing_files /\ stat[path].mtime <= start_time)
        /\ stat[path].mtime >= start_time}

\* Variant of the scan that keeps to the files this request's own
\* generation wrote.
scan_picks_own(stat, existing_files, start_time, who) ==
    LET own == {path \in scan_candidates(stat, existing_files, start_time) :
                   stat[path].writer = who}
    IN  IF own = {} THEN {None} ELSE {Some(path) : path \in own}

\* Lines 617-635: generated_file. The loop keeps the file modified last among
\* the candidates; os.listdir gives no order, so among files of equal mtime
\* any can be the one kept. The scan does not look at who wrote a file.
scan_picks(stat, existing_files, start_time, who) ==
    LET candidates == scan_candidates(stat, existing_files, start_time)
        newest == {path \in candidates :
                      \A other \in candidates : stat[other].mtime <= stat[path].mtime}
    IN  IF candidates = {} THEN {None} ELSE {Some(path) : path \in newest}

\* Lines 615 and 637-638.
resolved_music_path_of(stat, hinted_path, generated_file) ==
    IF generated_file # None /\ isfile(stat, generated_file[1]) THEN generated_file
    ELSE IF hinted_path # None /\ isfile(stat, hinted_path[1]) THEN hinted_path
    ELSE None

\* The names the files of the music directory can have.
FileNames ==
    {"track.mp3"}
    \cup {"elevenlabs_music_" \o style \o "_" \o Timestamp(now) \o ".mp3" :
             style \in DOMAIN MUSIC_STYLE_PROMPTS \cup {"polka"}, now \in 0..(MaxClock + 1)}

\* os.path.basename of a path in the music directory.
basename(path) ==
    CHOOSE name \in FileNames : "/tmp/elevenlabs_music/" \o name = path

\* Lines 640-649 and 663-669.
MusicResponse(url, style, description, duration) ==
    [url |-> url, filename |-> basename(url), style |-> style,
     description |-> description, duration |-> duration]

\* Lines 687-691.
FallbackPlan(reason, suggestedStyle) ==
    [strategy |-> "local_playlist", reason |-> reason,
     suggestedStyle |-> Some(suggestedStyle)]

\* Variant of the response that reports the failure reason beside the music.
VibeResponse_error_kept(music_info, failure_reason, fallback_plan, response_text) ==
    [success |-> music_info # None \/ fallback_plan # None, music |-> music_info,
     vibeDescription |-> Some(response_text),
     error |-> IF fallback_plan # None THEN Some(fallback_plan[1].reason)
               ELSE Some("Music file path not found in response"),
     fallback |-> fallback_plan]

\* Lines 699-708.
VibeResponse(music_info, failure_reason, fallback_plan, response_text) ==
    [success |-> music_info # None \/ fallback_plan # None, music |-> music_info,
     vibeDescription |-> Some(response_text),
     error |-> IF TruthyStr(failure_reason) /\ music_info = None THEN failure_reason
               ELSE None,
     fallback |-> fallback_plan]

\* Lines 710-715.
VibeFailure(message) ==
    [success |-> FALSE, music |-> None, vibeDescription |-> None,
     error |-> Some(message), fallback |-> None]

\* Variant of the test of line 653 that always goes on to the direct call.
runs_direct_always(music_info) == TRUE

\* Line 653: the direct call is made when the agent run left no file.
runs_direct(music_info) == music_info = None

\* Lines 685-708: the response once the stages are over.
final_response(music_info, failure_reason, selected_style, response_text) ==
    IF music_info = None
    THEN LET fallback_message ==
                 IF TruthyStr(failure_reason) THEN failure_reason[1]
                 ELSE "Music file path not found in response"
         IN  VibeResponse(None, Some(fallback_message),
                          Some(FallbackPlan(fallback_message, selected_style)),
                          response_text)
    ELSE VibeResponse(music_info, failure_reason, None, response_text)

\* Lines 662-677: what the direct call's result leaves of music_info and
\* failure_reason.
direct_music_info(stat, music_result, selected_style, description) ==
    IF music_result.music_file # None /\ isfile(stat, music_result.music_file[1])
    THEN Some(MusicResponse(music_result.music_file[1], selected_style, description,
                            IF music_result.duration_seconds = 0 THEN 60
                            ELSE music_result.duration_seconds))
    ELSE None

direct_failure_reason(stat, music_result) ==
    IF music_result.music_file # None /\ isfile(stat, music_result.music_file[1])
    THEN None
    ELSE IF music_result.message # "" THEN Some(music_result.message) ELSE None


\* One request on each path of the resolver, and one the resolver raises on.
EndpointRequests ==
    {Request([BaseStats EXCEPT !.styleIndicator = "party"], None, None, None, None),
     Request(BaseStats, None, None, None,
             Some(Brief("polka", <<"claps", "no vocals", "claps">>, "off", F(50),
                        Some("custom"), <<"calm">>))),
     Request(BaseStats, None, None,
             Some(Weather(Some("Oslo"), Some("Clear Sky"), Some(Infinity), Some(40))), None)}

\* What ElevenLabs answers a handler's generation with.
EndpointOutcomes ==
    {http \in HttpOutcomes :
        /\ ~http.failed
        /\ http.contentType \in {Some("audio/mpeg"), Some("text/html")}
        /\ http.body # ""}

\* STYLE_INSTRUMENTS after the resolver has run on req.
table_after(table, req) ==
    IF req.brief = None THEN fresh_table_after(table, req)
    ELSE existing_table_after(table, req)

\* The arguments the prompt tells the agent to call generate_music with
\* (lines 564-567).
prompted_arguments(b) ==
    [style |-> Some(b.style), description |-> Some(b.description),
     duration_seconds |-> Some(60)]

\* The handler's record once it has answered. stages lists the generation
\* stages it went through: "agent" the agent run, "direct" the fallback to the
\* direct call (lines 653-679), "plan" the local-playlist plan (lines 685-697).
Answered(h, stages, music_info, response, stat) ==
    [h EXCEPT !.pc = "done", !.stages = stages, !.music_info = music_info,
              !.response = Some(response),
              !.reported_writer =
                  IF response.music # None THEN Some(stat[response.music[1].url].writer)
                  ELSE None]

\* The endpoint and the MCP server share the environment's key.
InitEndpoint ==
    /\ ResolverNotStarted
    /\ WeatherNotStarted
    /\ EndpointNotStarted
    /\ elevenlabs_api_key \in Keys
    /\ ELEVENLABS_API_KEY = None
    /\ clock = 0
    /\ files = {}
    /\ toolResult = None
    /\ cli = None

\* Lines 370-581: a request arrives, its brief is resolved, the clock and the
\* directory are read and the agent run is started. An exception of the
\* resolver is answered by the except clause of line 710.
Begin(r, req) ==
    /\ r \notin DOMAIN handlers
    /\ WithinMaxHints(req)
    /\ STYLE_INSTRUMENTS' = table_after(STYLE_INSTRUMENTS, req)
    /\ LET h == [pc |-> "agent", brief |-> None, start_time |-> clock,
                 existing_files |-> existing_files_of(file_stat), called |-> FALSE,
                 tool_file |-> None, stages |-> <<>>, after_agent |-> None,
                 music_info |-> None, escaped |-> None, response |-> None,
                 reported_writer |-> None]
       IN  handlers' =
               IF resolution_raises(req)
               THEN (r :> Answered([h EXCEPT !.escaped = Some("OverflowError")], <<>>, None,
                                   VibeFailure("cannot convert float infinity to integer"),
                                   file_stat)) @@ handlers
               ELSE (r :> [h EXCEPT !.brief = Some(resolution(STYLE_INSTRUMENTS, req)),
                                    !.stages = <<"agent">>]) @@ handlers
    /\ UNCHANGED <<request, requestAfter, brief, raised, earlier, music, weather_state,
                   file_stat, generated>>

BeginRequest == \E r \in Handlers, req \in EndpointRequests : Begin(r, req)

\* During the agent run the agent calls generate_music of the MCP server as
\* the prompt tells it to; the server handles the call (lines 75-112 of
\* mcp_elevenlabs_server.py).
AgentCallsTool(r, http, disk) ==
    /\ r \in DOMAIN handlers
    /\ handlers[r].pc = "agent"
    /\ ~handlers[r].called
    /\ LET arguments == prompted_arguments(handlers[r].brief[1])
           result == handle_call_tool(elevenlabs_api_key, "generate_music", arguments, http,
                                      disk, clock)
       IN  /\ toolResult' =
                  Some([name |-> "generate_music", arguments |-> arguments,
                        posted |-> server_posts(elevenlabs_api_key, "generate_music",
                                                arguments)] @@ result)
           /\ files' = server_files_after(files, elevenlabs_api_key, "generate_music",
                                          arguments, http, disk, clock)
           /\ file_stat' = server_stat_after(file_stat, elevenlabs_api_key, "generate_music",
                                             arguments, http, disk, clock, r)
           /\ handlers' = [handlers EXCEPT ![r].called = TRUE,
                                           ![r].tool_file = music_file_of(result)]
    /\ UNCHANGED <<resolver, elevenlabs_api_key, ELEVENLABS_API_KEY, clock, cli,
                   weather_state, generated>>

AgentGenerates ==
    \E r \in Handlers, http \in EndpointOutcomes : AgentCallsTool(r, http, "ok")

\* Lines 581-708 up to the next await: the agent run is over. It raised, or
\* it returned a reply that hints at a path or at none; the scan and the
\* decision about the direct call follow. The import of line 655 fails where
\* the mcp package is missing; without a key the direct call returns at once.
AgentReturns(r, raised_in_run, hint, importable) ==
    /\ r \in DOMAIN handlers
    /\ handlers[r].pc = "agent"
    /\ LET h0 == handlers[r]
           b == h0.brief[1]
           text == "The track follows the brief."
       IN  IF raised_in_run
           THEN handlers' = [handlers EXCEPT ![r] =
                    Answered([h0 EXCEPT !.escaped = Some("RuntimeError")], h0.stages, None,
                             VibeFailure("agent run failed"), file_stat)]
           ELSE \E generated_file \in scan_picks(file_stat, h0.existing_files,
                                                 h0.start_time, r) :
                    LET path == resolved_music_path_of(file_stat, hinted_path_of(hint),
                                                       generated_file)
                        music_info ==
                            IF path # None
                            THEN Some(MusicResponse(path[1], b.style, b.description, 60))
                            ELSE None
                        mocked == mock_result(b.description, b.style, 60)
                        h == [h0 EXCEPT !.after_agent = Some(music_info)]
                    IN  IF ~runs_direct(music_info)
                        THEN handlers' = [handlers EXCEPT ![r] =
                                 Answered(h, h.stages, music_info,
                                          final_response(music_info, None, b.style, text),
                                          file_stat)]
                        ELSE IF ~importable
                        THEN handlers' = [handlers EXCEPT ![r] =
                                 Answered(h, h.stages \o <<"direct">>
                                                 \o (IF music_info = None THEN <<"plan">>
                                                     ELSE <<>>),
                                          music_info,
                                          final_response(music_info,
                                                         Some("No module named 'mcp'"),
                                                         b.style, text),
                                          file_stat)]
                        ELSE IF ~TruthyStr(elevenlabs_api_key)
                        THEN handlers' = [handlers EXCEPT ![r] =
                                 Answered(h, h.stages \o <<"direct">>
                                                 \o (IF music_info = None THEN <<"plan">>
                                                     ELSE <<>>),
                                          music_info,
                                          final_response(music_info,
                                                         direct_failure_reason(file_stat,
                                                                               mocked),
                                                         b.style, text),
                                          file_stat)]
                        ELSE handlers' = [handlers EXCEPT ![r] =
                                 [h EXCEPT !.pc = "direct",
                                           !.stages = h.stages \o <<"direct">>,
                                           !.music_info = music_info]]
    /\ UNCHANGED <<resolver, music, weather_state, file_stat, generated>>

AgentRunEnds ==
    \E r \in Handlers, raised_in_run \in BOOLEAN, importable \in BOOLEAN :
        \E hint \in {None, Some("track.mp3")}
                    \cup (IF r \in DOMAIN handlers /\ handlers[r].pc = "agent"
                          THEN {handlers[r].tool_file} ELSE {}) :
            AgentReturns(r, raised_in_run, hint, importable)

\* Lines 658-708: ElevenLabs has answered the direct call; _call_elevenlabs_api
\* of the server module writes the file and returns, and the handler answers.
DirectReturns(r, http, disk) ==
    /\ r \in DOMAIN handlers
    /\ handlers[r].pc = "direct"
    /\ LET h == handlers[r]
           b == h.brief[1]
           text == "The track follows the brief."
           music_result == server_call_elevenlabs_api(elevenlabs_api_key, b.description,
                                                      b.style, 60, http, disk, clock)
           written == server_writes(elevenlabs_api_key, http, disk)
           path == server_file_path(b.style, clock)
           stat == IF written THEN Touch(file_stat, path, clock, r) ELSE file_stat
           found == direct_music_info(stat, music_result, b.style, b.description)
           music_info == IF found # None THEN found ELSE h.music_info
       IN  /\ files' = IF written THEN WriteFile(files, path, http.body) ELSE files
           /\ file_stat' = stat
           /\ handlers' = [handlers EXCEPT ![r] =
                  Answered(h, h.stages \o (IF music_info = None THEN <<"plan">> ELSE <<>>),
                           music_info,
                           final_response(music_info,
                                          direct_failure_reason(stat, music_result),
                                          b.style, text),
                           stat)]
    /\ UNCHANGED <<resolver, elevenlabs_api_key, ELEVENLABS_API_KEY, clock, toolResult, cli,
                   weather_state, generated>>

DirectCallEnds ==
    \E r \in Handlers, http \in EndpointOutcomes : DirectReturns(r, http, "ok")

NextEndpoint == BeginRequest \/ AgentGenerates \/ AgentRunEnds \/ DirectCallEnds \/ Tick

SpecEndpoint == InitEndpoint /\ [][NextEndpoint]_vars

EndpointTypeOK ==
    \A r \in DOMAIN handlers : handlers[r].pc \in {"agent", "direct", "done"}


\* C26: every response has one of three shapes. With music: success, no
\* fallback, no error. With a fallback plan: success, no music, a
\* local_playlist plan that suggests the resolved brief's style and whose
\* reason is the response's error. A failure: no success, an error, neither
\* music nor plan, and only after an exception left the handler's body.
\* Music and plan are never both set.
WithMusic(v) ==
    v.success /\ v.music # None /\ v.fallback = None /\ v.error = None

WithPlan(v, h) ==
    /\ v.success /\ v.music = None /\ v.fallback # None
    /\ v.fallback[1].strategy = "local_playlist"
    /\ h.brief # None
    /\ v.fallback[1].suggestedStyle = Some(h.brief[1].style)
    /\ v.error # None
    /\ v.fallback[1].reason = v.error[1]

Failed(v, h) ==
    ~v.success /\ v.error # None /\ v.music = None /\ v.fallback = None /\ h.escaped # None

ResponseShapes ==
    \A r \in DOMAIN handlers :
        handlers[r].response # None =>
            LET v == handlers[r].response[1]
            IN  /\ WithMusic(v) \/ WithPlan(v, handlers[r]) \/ Failed(v, handlers[r])
                /\ handlers[r].escaped # None => ~v.success

\* The agent left no file and ElevenLabs refused the direct call: the plan
\* carries the refusal as its reason.
ResponseShapesWitness ==
    \E r \in DOMAIN handlers :
        /\ handlers[r].response # None
        /\ WithPlan(handlers[r].response[1], handlers[r])
        /\ handlers[r].response[1].error = Some("ElevenLabs API error: 500")

\* C27: the stages are strictly ordered. The agent run comes first and
\* exactly once for a request whose brief was resolved; the direct call is
\* attempted only when the agent run left no file, and at most once; the
\* local-playlist plan is made only after both left no file; once a file is
\* found no later stage runs.
StageOrder ==
    \A r \in DOMAIN handlers :
        LET h == handlers[r]
            t == h.stages
        IN  /\ t \in {<<>>, <<"agent">>, <<"agent", "direct">>, <<"agent", "direct", "plan">>}
            /\ h.brief # None <=> t # <<>>
            /\ Contains(t, "direct") => h.after_agent = Some(None)
            /\ Contains(t, "plan") => h.music_info = None /\ h.pc = "done"
            /\ h.pc = "direct" => t = <<"agent", "direct">>
            /\ (h.after_agent # None /\ h.after_agent[1] # None) =>
                   /\ t = <<"agent">>
                   /\ h.pc = "done"
                   /\ h.response[1].music = h.after_agent[1]
            /\ (h.pc = "done" /\ h.escaped = None) =>
                   (h.response[1].fallback # None <=> Contains(t, "plan"))
            /\ (h.pc = "done" /\ h.music_info # None) => ~Contains(t, "plan")

\* A request went through all three stages.
StageOrderWitness ==
    \E r \in DOMAIN handlers :
        /\ handlers[r].stages = <<"agent", "direct", "plan">>
        /\ handlers[r].response # None
        /\ handlers[r].response[1].fallback # None

\* C28: when requests overlap, the file a response reports in music.url is
\* one that the same request's generation wrote, never one of the other
\* request's.
OwnMusicReported ==
    \A r \in DOMAIN handlers :
        (handlers[r].response # None /\ handlers[r].response[1].music # None) =>
            handlers[r].reported_writer = Some(r)

====
